---- MODULE Spec2Model ----
(***************************************************************************)
(* Verification model of the ET4397IN intrusion prevention system:         *)
(*   - hub/hub.go          the publish/subscribe dispatcher with veto      *)
(*   - module/dosmodule.go the SYN-flood module and its reset ticker       *)
(*   - main.go             the pipeline driver and its per-frame tasks     *)
(*   - dns/dns.go          the DNS message decoder                         *)
(*   - arp/arp.go          the ARP message decoder                         *)
(*   - module/arpmodule.go the ARP module and the Log module               *)
(*   - module/wifimodule.go the 802.11 module                              *)
(*   - bloom.go            the Bloom filter                                *)
(*                                                                         *)
(* SpecHub drives the dispatcher alone with arbitrary subscribers.         *)
(* Spec is the pipeline: driver loop, per-frame goroutines, DoS module and *)
(* ticker goroutine, interleaved at the granularity of their accesses to   *)
(* shared memory.  SpecLong is Spec with a capture one frame longer,       *)
(* SpecWrite is Spec with the write to the capture handle as a span, and   *)
(* SpecLive is Spec with the scheduler's fairness.                         *)
(* SpecDNS applies the decoders of dns.go to byte strings: all short ones, *)
(* generated domain names, well-formed messages and damaged ones.          *)
(* SpecARPDecoder applies DecodeARP to ARP messages of every header field  *)
(* sample, cut short and padded.  SpecARP is the ARP module receiving      *)
(* frames under each configuration, with the Log module rendering what it  *)
(* publishes.  SpecLog calls the Log module with every short argument      *)
(* list, and SpecReport calls the Log and the 802.11 module in turn while  *)
(* the clock advances.                                                     *)
(* SpecWiFi gives the 802.11 module management and WEP frames at chosen    *)
(* clock readings, SpecWEPQueue a long run of WEP frames.  SpecReset       *)
(* applies sendReset to SYN segments, SpecBloom adds items to Bloom        *)
(* filters of small and of the tested size, and SpecCount is the pipeline  *)
(* counting SYN frames with the mutex taken and released as separate       *)
(* steps.                                                                  *)
(***************************************************************************)
EXTENDS Integers, Sequences, FiniteSets, TLC

\* ------------------------------------------------------------------ bounds
\* Number of frames the capture source delivers before EOF (at most); the
\* scenarios that take three goroutines run with one frame more (SpecLong).
MaxFrames == 2
\* Number of Subscribe calls made on a hub in SpecHub (at most).
MaxSubscribes == 3
\* Largest configured syn-threshold explored.
MaxThreshold == 1
\* Length of the byte strings given to the DNS decoder exhaustively (at most).
MaxSmall == 4
\* Number of labels in the generated domain names (at most).
MaxLabels == 5
\* Number of questions in the generated DNS messages (at most).
MaxQuestions == 2
\* Number of resources in the generated DNS messages (at most).
MaxRRs == 2
\* Number of padding bytes after an ARP message (at most).
MaxPadding == 18
\* Number of frames the ARP module receives (at most).
MaxARPFrames == 2
\* Number of arguments in the argument lists given to the Log module (at most).
MaxArgs == 3
\* Largest configured interval explored, in clock ticks.
MaxInterval == 2
\* Last clock reading at which the WiFi module receives a frame.
MaxClock == 3
\* Last clock reading in the timing scenarios of the WiFi module.
MaxTime == 4
\* Number of WEP frames the WiFi module receives in a row (at most).
MaxWEPFrames == 12
\* Largest size of the small Bloom filters.
MaxSize == 4
\* Largest number of hash functions of the small Bloom filters.
MaxHashes == 3

\* ------------------------------------------------------------------ state
VARIABLES
    subscriptions,  \* Hub.subscriptions: topic -> sequence of subscriber names
    subscribeLog,   \* history: the subscribers in the order Subscribe was called
    hubLog,         \* history: the last Publish (topic, handler answers, invoked, ret)
    threshold,      \* DoSModule.threshold
    syns,           \* DoSModule.syns
    cons,           \* DoSModule.cons: source IP -> established
    mutex,          \* DoSModule.Mutex: 0 free, else the goroutine holding it
    tickerPc,       \* position of the ticker goroutine: "wait", "lock"
    capture,        \* history: the frames read from the packet source so far
    packet,         \* main's loop variable packet (index into capture, 0 unset)
    driverPc,       \* position of main: "loop", "wait", "done"
    waitGroup,      \* counter of main's sync.WaitGroup
    handleClosed,   \* the deferred handle.Close() has run
    pc,             \* position of each per-frame goroutine
    pub,            \* frame each goroutine passed to hub.Publish
    est,            \* history: cons[src] when the goroutine entered Receive
    ok,             \* value hub.Publish returned to the goroutine
    rst,            \* sendReset was invoked by the goroutine
    fwd,            \* frame the goroutine passed to forward (0 none)
    layerDst,       \* DstIP field of each frame's decoded IPv4 layer
    wire,           \* IPv4 destination in the bytes each goroutine wrote
    crashed,        \* the runtime aborted the process (concurrent map access)
    data,           \* dns: the byte slice handed to the decoder
    start,          \* dns: the offset handed to the decoder
    valid,          \* dns: data is the encoding of a well-formed message
    res,            \* dns: the decoder called last and what it returned
    config,         \* arp: the configuration ARPModule.Init was called with
    initCopy,       \* arp: validBindings of Init's receiver when Init returned
    validBindings,  \* ARPModule.validBindings of the module on the hub
    seen,           \* history: the calls of ARPModule.Receive, in order
    interval,       \* WiFiModule.interval
    now,            \* the value time.Now() returned last
    prevDeauthTime, \* WiFiModule.prevDeauthTime
    prevWEPTime,    \* WiFiModule.prevWEPTime
    weps,           \* WiFiModule.weps
    received,       \* history: the frames the WiFi module acted on, with their times
    bloom,          \* the BloomFilter of bloom.go: size, hashes and the bits set
    added,          \* history: the items given to BloomFilter.Add
    load,           \* per goroutine: the value of m.syns it read at line 109
    sinceReset,     \* history: the goroutines that stored m.syns since the last reset
    last            \* history: the last call of a decoder or handler on its own

hubVars == <<subscriptions, subscribeLog, hubLog>>
dosVars == <<threshold, syns, cons, mutex, tickerPc>>
driverVars == <<capture, packet, driverPc, waitGroup, handleClosed>>
taskVars == <<pc, pub, est, ok, rst, fwd, layerDst, wire>>
dnsVars == <<data, start, valid, res>>
arpVars == <<config, initCopy, validBindings, seen>>
wifiVars == <<interval, now, prevDeauthTime, prevWEPTime, weps, received>>
bloomVars == <<bloom, added>>
countVars == <<load, sinceReset>>
modVars == <<arpVars, wifiVars, bloomVars, countVars, last>>
vars == <<hubVars, dosVars, driverVars, taskVars, crashed, dnsVars, modVars>>

\* ------------------------------------------------------------ hub/hub.go
TopicNames == {"packet", "log"}

\* Topics() of the modules, and of a subscriber declaring both topics.
DoSTopics == <<"packet">>
LogTopics == <<"log">>
ARPTopics == <<"packet">>

SubscriberPool ==
    { [name |-> "DoSModule", topics |-> DoSTopics],
      [name |-> "LogModule", topics |-> LogTopics],
      [name |-> "ARPModule", topics |-> ARPTopics],
      [name |-> "Both",      topics |-> <<"packet", "log">>] }

TopicsOf(n) == (CHOOSE s \in SubscriberPool : s.name = n).topics

NewHub == [t \in TopicNames |-> <<>>]

\* Mutant of AppendSub: the new subscription goes to the front.
AppendSubFront(subs, name) == <<name>> \o subs

\* h.subscriptions[topic] = append(h.subscriptions[topic], sub)
AppendSub(subs, name) == Append(subs, name)

\* Subscribe: for each declared topic, in order, append the subscription.
RECURSIVE SubscribeFrom(_, _, _)
SubscribeFrom(table, s, i) ==
    IF i > Len(s.topics) THEN table
    ELSE SubscribeFrom(
             [table EXCEPT ![s.topics[i]] = AppendSub(table[s.topics[i]], s.name)],
             s, i + 1)

Subscribe(table, s) == SubscribeFrom(table, s, 1)

\* Mutant of PublishFrom: every handler is invoked, the verdicts are and-ed.
RECURSIVE PublishAll(_, _, _)
PublishAll(subs, answers, i) ==
    IF i > Len(subs) THEN [ret |-> TRUE, invoked |-> <<>>]
    ELSE LET r == PublishAll(subs, answers, i + 1)
         IN  [ret |-> answers[i] /\ r.ret, invoked |-> <<subs[i]>> \o r.invoked]

\* Publish's loop from subscriber i on: answers[i] is what the i-th handler
\* returns; the first false ends the loop with false.
RECURSIVE PublishFrom(_, _, _)
PublishFrom(subs, answers, i) ==
    IF i > Len(subs) THEN [ret |-> TRUE, invoked |-> <<>>]
    ELSE IF ~answers[i] THEN [ret |-> FALSE, invoked |-> <<subs[i]>>]
    ELSE LET r == PublishFrom(subs, answers, i + 1)
         IN  [ret |-> r.ret, invoked |-> <<subs[i]>> \o r.invoked]

Publish(table, topic, answers) == PublishFrom(table[topic], answers, 1)

\* hubLog before any Publish; at is the number of Subscribe calls made before
\* the recorded Publish.
NoPublish ==
    [topic |-> "packet", answers |-> <<>>, invoked |-> <<>>, ret |-> TRUE, at |-> 0]


\* ------------------------------------------------------------- frames
SrcIPs == {"10.0.0.1", "10.0.0.2"}

\* What DoSModule.Receive looks at in a frame: the layers it has, the TCP
\* SYN and ACK flags and the IPv4 source address.
TCPFrame(s, syn, ack) ==
    [ipv4 |-> TRUE, tcp |-> TRUE, syn |-> syn, ack |-> ack, src |-> s,
     dst |-> "10.0.0.9"]

Frames ==
    { TCPFrame("10.0.0.1", TRUE, FALSE),                 \* SYN only
      TCPFrame("10.0.0.1", FALSE, TRUE),                 \* ACK only
      TCPFrame("10.0.0.2", FALSE, TRUE),                 \* ACK only, other source
      TCPFrame("10.0.0.2", TRUE, TRUE),                  \* SYN+ACK
      [ipv4 |-> FALSE, tcp |-> FALSE, syn |-> FALSE, ack |-> FALSE,
       src |-> "10.0.0.2", dst |-> "none"] }             \* no IPv4 layer

IsSynOnly(f) == f.ipv4 /\ f.tcp /\ f.syn /\ ~f.ack
IsAckOnly(f) == f.ipv4 /\ f.tcp /\ f.ack /\ ~f.syn

\* ------------------------------------------------------------- processes
LongFrames == MaxFrames + 1
Tasks == 1..LongFrames

\* The frame goroutine t handed to hub.Publish.
FrameOf(t) == capture[pub[t]]

\* ------------------------------------------------------------- main.go
\* The modules main creates, in order; each Init returns nil, so each is
\* subscribed.
MainModules ==
    << [name |-> "DoSModule", topics |-> DoSTopics],
       [name |-> "LogModule", topics |-> LogTopics] >>

RECURSIVE SubscribeAll(_, _, _)
SubscribeAll(table, mods, i) ==
    IF i > Len(mods) THEN table
    ELSE SubscribeAll(Subscribe(table, mods[i]), mods, i + 1)

InitPipeline ==
    /\ threshold \in 0..MaxThreshold
    /\ syns = 0
    /\ cons = [s \in SrcIPs |-> FALSE]
    /\ mutex = 0
    /\ tickerPc = "wait"
    /\ capture = <<>>
    /\ packet = 0
    /\ driverPc = "loop"
    /\ waitGroup = 0
    /\ handleClosed = FALSE
    /\ pc = [t \in Tasks |-> "unborn"]
    /\ pub = [t \in Tasks |-> 0]
    /\ est = [t \in Tasks |-> FALSE]
    /\ ok = [t \in Tasks |-> TRUE]
    /\ rst = [t \in Tasks |-> FALSE]
    /\ fwd = [t \in Tasks |-> 0]
    /\ layerDst = [i \in Tasks |-> "none"]
    /\ wire = [t \in Tasks |-> "none"]
    /\ crashed = FALSE

\* No DNS decoder has been called.
NoResult == [fn |-> "none"]

InitNoDNS ==
    /\ data = <<>>
    /\ start = 0
    /\ valid = FALSE
    /\ res = NoResult

\* The ARP and WiFi modules are not in main's list of modules (main.go,
\* lines 98 and 102): their state stays as the zero values of their structs.
NoConfig == [given |-> FALSE, bindings |-> {}]

NoCall == [fn |-> "none"]

\* time.Time{}
ZeroTime == -1

\* No filter has been made.
NoBloom == [size |-> 0, hashes |-> 0, set |-> {}]

InitNoBloom ==
    /\ bloom = NoBloom
    /\ added = {}

\* No goroutine has read m.syns.
InitNoCount ==
    /\ load = [t \in Tasks |-> 0]
    /\ sinceReset = {}

InitNoModules ==
    /\ config = NoConfig
    /\ initCopy = {}
    /\ validBindings = {}
    /\ seen = <<>>
    /\ interval = 0
    /\ now = 0
    /\ prevDeauthTime = ZeroTime
    /\ prevWEPTime = ZeroTime
    /\ weps = <<>>
    /\ received = <<>>
    /\ InitNoBloom
    /\ InitNoCount
    /\ last = NoCall

\* State when main enters the packet loop: hub created, modules subscribed.
Init ==
    /\ subscriptions = SubscribeAll(NewHub, MainModules, 1)
    /\ subscribeLog = <<"DoSModule", "LogModule">>
    /\ hubLog = NoPublish
    /\ InitPipeline
    /\ InitNoDNS
    /\ InitNoModules

\* for packet := range packetSource.Packets() { waitGroup.Add(1); go func ...
\* The loop variable is one variable for all iterations; the goroutine
\* started here refers to it.
DriverRead(f, limit) ==
    /\ ~crashed
    /\ driverPc = "loop"
    /\ Len(capture) < limit
    /\ capture' = Append(capture, f)
    /\ packet' = Len(capture) + 1
    /\ waitGroup' = waitGroup + 1
    /\ pc' = [pc EXCEPT ![Len(capture) + 1] = "start"]
    /\ layerDst' = [layerDst EXCEPT ![Len(capture) + 1] = f.dst]
    /\ UNCHANGED <<driverPc, handleClosed, pub, est, ok, rst, fwd, wire>>
    /\ UNCHANGED <<modVars, dnsVars, hubVars, dosVars, crashed>>

DriverNext(f) == DriverRead(f, MaxFrames)

DriverNextLong(f) == DriverRead(f, LongFrames)

\* The packet channel is closed: the loop ends and main calls Wait.
DriverEOF ==
    /\ ~crashed
    /\ driverPc = "loop"
    /\ driverPc' = "wait"
    /\ UNCHANGED <<capture, packet, waitGroup, handleClosed>>
    /\ UNCHANGED <<modVars, dnsVars, hubVars, dosVars, taskVars, crashed>>

\* Mutant of WaitReturns: Wait does not wait.
WaitReturnsAtOnce == TRUE

\* waitGroup.Wait() returns when the counter is zero.
WaitReturns == waitGroup = 0

\* Wait returns, main returns, the deferred handle.Close() runs.
DriverFinish ==
    /\ ~crashed
    /\ driverPc = "wait"
    /\ WaitReturns
    /\ driverPc' = "done"
    /\ handleClosed' = TRUE
    /\ UNCHANGED <<capture, packet, waitGroup>>
    /\ UNCHANGED <<modVars, dnsVars, hubVars, dosVars, taskVars, crashed>>


\* ------------------------------------------------ module/dosmodule.go
\* What hub.Publish("packet", packet) returns to the goroutine when the DoS
\* module's Receive returns answer: the hub's reduction over the subscribers
\* of topic packet, the other subscribers (none in main) never vetoing.
PublishResult(answer) ==
    LET subs == subscriptions["packet"]
    IN  Publish(subscriptions, "packet",
                [i \in 1..Len(subs) |-> IF subs[i] = "DoSModule" THEN answer ELSE TRUE]).ret

\* Mutant of RateLimit: the RST is sent before the random choice is made.
RateLimitResetFirst(established, count, limit, lucky) ==
    IF ~established /\ count > limit
    THEN [ok |-> lucky, rst |-> TRUE]
    ELSE [ok |-> TRUE, rst |-> FALSE]

\* Receive, lines 114-120: with established = m.cons[src], count = m.syns,
\* limit = m.threshold and lucky = (rand.Intn(100) == 1), the value returned
\* and whether sendReset is called.
RateLimit(established, count, limit, lucky) ==
    IF ~established /\ count > limit
    THEN IF lucky THEN [ok |-> TRUE, rst |-> FALSE]
                  ELSE [ok |-> FALSE, rst |-> TRUE]
    ELSE [ok |-> TRUE, rst |-> FALSE]

\* The goroutine starts: hub.Publish("packet", packet) reads the loop
\* variable and calls DoSModule.Receive, which decodes the layers and
\* branches on the flags (lines 84-107, 121).
TaskStart(t) ==
    /\ ~crashed
    /\ pc[t] = "start"
    /\ pub' = [pub EXCEPT ![t] = packet]
    /\ est' = [est EXCEPT ![t] = cons[capture[packet].src]]
    /\ LET f == capture[packet]
       IN  /\ pc' = [pc EXCEPT ![t] =
                        IF IsSynOnly(f) THEN "count"
                        ELSE IF IsAckOnly(f) THEN "lockAck"
                        ELSE "ret"]
           /\ ok' = [ok EXCEPT ![t] = PublishResult(TRUE)]
    /\ UNCHANGED <<rst, fwd, layerDst, wire>>
    /\ UNCHANGED <<modVars, dnsVars, hubVars, dosVars, driverVars, crashed>>

\* m.Mutex.Lock(); m.syns = m.syns + 1; m.Mutex.Unlock()  (lines 108-110).
\* The section writes one word, which a reader without the mutex sees
\* either before or after the write: it is one step.
TaskCount(t) ==
    /\ ~crashed
    /\ pc[t] = "count"
    /\ mutex = 0
    /\ syns' = syns + 1
    /\ pc' = [pc EXCEPT ![t] = "check"]
    /\ UNCHANGED <<threshold, cons, mutex, tickerPc>>
    /\ UNCHANGED <<pub, est, ok, rst, fwd, layerDst, wire>>
    /\ UNCHANGED <<modVars, dnsVars, hubVars, driverVars, crashed>>

\* Another goroutine is inside the critical section that writes m.cons.
MapWriteInProgress(t) == \E u \in Tasks \ {t} : pc[u] = "ackCS"

\* What the read m.cons[src] at line 114, made without the mutex, can
\* yield: the stored value, or anything when it overlaps a write of the map.
ConsRead(t) ==
    IF MapWriteInProgress(t) THEN BOOLEAN ELSE {cons[FrameOf(t).src]}

\* Lines 114-120, executed without the mutex: read m.cons and m.syns, then
\* forward, or sendReset and veto.
TaskCheck(t) ==
    /\ ~crashed
    /\ pc[t] = "check"
    /\ \E e \in ConsRead(t), lucky \in BOOLEAN :
          LET r == RateLimit(e, syns, threshold, lucky)
          IN  /\ ok' = [ok EXCEPT ![t] = PublishResult(r.ok)]
              /\ rst' = [rst EXCEPT ![t] = r.rst]
    /\ pc' = [pc EXCEPT ![t] = "ret"]
    /\ UNCHANGED <<pub, est, fwd, layerDst, wire>>
    /\ UNCHANGED <<modVars, dnsVars, hubVars, dosVars, driverVars, crashed>>

\* The runtime detects the map read of line 114 overlapping a map write and
\* aborts the process ("concurrent map read and map write").
TaskCheckCrash(t) ==
    /\ ~crashed
    /\ pc[t] = "check"
    /\ MapWriteInProgress(t)
    /\ crashed' = TRUE
    /\ UNCHANGED <<modVars, dnsVars, hubVars, dosVars, driverVars, taskVars>>

\* m.Mutex.Lock() at line 122: the write of the map that follows is not
\* one step for a reader without the mutex, so the section is a span.
TaskLock(t) ==
    /\ ~crashed
    /\ pc[t] = "lockAck"
    /\ mutex = 0
    /\ mutex' = t
    /\ pc' = [pc EXCEPT ![t] = "ackCS"]
    /\ UNCHANGED <<threshold, syns, cons, tickerPc>>
    /\ UNCHANGED <<pub, est, ok, rst, fwd, layerDst, wire>>
    /\ UNCHANGED <<modVars, dnsVars, hubVars, driverVars, crashed>>

\* m.cons[src] = true; m.Mutex.Unlock(); return true  (lines 123-127)
TaskEstablish(t) ==
    /\ ~crashed
    /\ pc[t] = "ackCS"
    /\ cons' = [cons EXCEPT ![FrameOf(t).src] = TRUE]
    /\ mutex' = 0
    /\ ok' = [ok EXCEPT ![t] = PublishResult(TRUE)]
    /\ pc' = [pc EXCEPT ![t] = "ret"]
    /\ UNCHANGED <<threshold, syns, tickerPc>>
    /\ UNCHANGED <<pub, est, rst, fwd, layerDst, wire>>
    /\ UNCHANGED <<modVars, dnsVars, hubVars, driverVars, crashed>>

\* The address main parsed from the configured forward-ip.
FwdIP == "127.0.0.1"

\* packet.Data(): the bytes of frame i as they were captured; an assignment
\* to a field of a decoded layer does not reach them.
Data(i) == capture[i]

\* forward, lines 143-148: the DstIP field of the frame's IPv4 layer, when
\* it has one, becomes fwdIP.
RewriteDst(layers, i) ==
    IF capture[i].ipv4 THEN [layers EXCEPT ![i] = FwdIP] ELSE layers

\* main.go 129-134 and the deferred Done: DROP, or forward(handle, packet,
\* fwdIP) with the loop variable as it is now, which rewrites the layer and
\* writes packet.Data() to the handle.
TaskFinish(t) ==
    /\ ~crashed
    /\ pc[t] = "ret"
    /\ fwd' = [fwd EXCEPT ![t] = IF ok[t] THEN packet ELSE 0]
    /\ layerDst' = IF ok[t] THEN RewriteDst(layerDst, packet) ELSE layerDst
    /\ wire' = IF ok[t] THEN [wire EXCEPT ![t] = Data(packet).dst] ELSE wire
    /\ waitGroup' = waitGroup - 1
    /\ pc' = [pc EXCEPT ![t] = "done"]
    /\ UNCHANGED <<capture, packet, driverPc, handleClosed>>
    /\ UNCHANGED <<pub, est, ok, rst>>
    /\ UNCHANGED <<modVars, dnsVars, hubVars, dosVars, crashed>>

\* The same lines with the call of handle.WritePacketData as a span, which
\* no lock guards: the goroutine enters it (TaskForward), returns from it
\* (TaskWritten), or prints DROP (TaskDrop).
TaskForward(t) ==
    /\ ~crashed
    /\ pc[t] = "ret"
    /\ ok[t]
    /\ fwd' = [fwd EXCEPT ![t] = packet]
    /\ layerDst' = RewriteDst(layerDst, packet)
    /\ pc' = [pc EXCEPT ![t] = "write"]
    /\ UNCHANGED <<pub, est, ok, rst, wire>>
    /\ UNCHANGED <<modVars, dnsVars, hubVars, dosVars, driverVars, crashed>>

TaskWritten(t) ==
    /\ ~crashed
    /\ pc[t] = "write"
    /\ wire' = [wire EXCEPT ![t] = Data(fwd[t]).dst]
    /\ waitGroup' = waitGroup - 1
    /\ pc' = [pc EXCEPT ![t] = "done"]
    /\ UNCHANGED <<capture, packet, driverPc, handleClosed>>
    /\ UNCHANGED <<pub, est, ok, rst, fwd, layerDst>>
    /\ UNCHANGED <<modVars, dnsVars, hubVars, dosVars, crashed>>

TaskDrop(t) == ~ok[t] /\ TaskFinish(t)

\* ------------------------------------------------ the ticker goroutine
\* case <-m.ticker.C: the timer has fired and the goroutine takes the tick
\* (lines 63-65).
Tick ==
    /\ ~crashed
    /\ tickerPc = "wait"
    /\ tickerPc' = "lock"
    /\ UNCHANGED <<threshold, syns, cons, mutex>>
    /\ UNCHANGED <<modVars, dnsVars, hubVars, driverVars, taskVars, crashed>>

\* Mutant of ResetSyns: the counter is left as it is.
ResetSynsKeep(n) == n

\* The value line 67 stores in m.syns.
ResetSyns(n) == 0

\* m.Mutex.Lock(); m.syns = 0; m.Mutex.Unlock()  (lines 66-68), one step
\* as in TaskCount.
TickerReset ==
    /\ ~crashed
    /\ tickerPc = "lock"
    /\ mutex = 0
    /\ syns' = ResetSyns(syns)
    /\ tickerPc' = "wait"
    /\ UNCHANGED <<threshold, cons, mutex>>
    /\ UNCHANGED <<modVars, dnsVars, hubVars, driverVars, taskVars, crashed>>

\* ------------------------------------------------------ specifications
Driver == (\E f \in Frames : DriverNext(f)) \/ DriverEOF \/ DriverFinish

Task(t) ==
    \/ TaskStart(t)
    \/ TaskLock(t)
    \/ TaskCount(t)
    \/ TaskCheck(t)
    \/ TaskCheckCrash(t)
    \/ TaskEstablish(t)
    \/ TaskFinish(t)

Ticker == Tick \/ TickerReset

Next == Driver \/ (\E t \in Tasks : Task(t)) \/ Ticker

Spec == Init /\ [][Next]_vars

\* The same program reading a capture of up to LongFrames frames.
DriverLong == (\E f \in Frames : DriverNextLong(f)) \/ DriverEOF \/ DriverFinish

NextLong == DriverLong \/ (\E t \in Tasks : Task(t)) \/ Ticker

SpecLong == Init /\ [][NextLong]_vars

\* The same program with the write to the handle as a span.
TaskW(t) ==
    \/ TaskStart(t)
    \/ TaskLock(t)
    \/ TaskCount(t)
    \/ TaskCheck(t)
    \/ TaskCheckCrash(t)
    \/ TaskEstablish(t)
    \/ TaskForward(t)
    \/ TaskWritten(t)
    \/ TaskDrop(t)

NextWrite == Driver \/ (\E t \in Tasks : TaskW(t)) \/ Ticker

SpecWrite == Init /\ [][NextWrite]_vars


\* ------------------------------- the SYN counter, one memory access a step
\* Mutant of Acquire: Lock returns although the mutex is held.
AcquireAlways(m) == TRUE

\* m.Mutex.Lock() returns when no goroutine holds the mutex.
Acquire(m) == m = 0

\* The value of mutex while the ticker goroutine holds it.
TickerHolds == LongFrames + 1

\* The capture of this scenario holds SYN-only frames; their source plays no
\* part in the count.
SynFrames == { TCPFrame("10.0.0.1", TRUE, FALSE) }

\* m.Mutex.Lock() and the read of m.syns in m.syns + 1 (lines 108-109).
CountLock(t) ==
    /\ ~crashed
    /\ pc[t] = "count"
    /\ Acquire(mutex)
    /\ mutex' = t
    /\ load' = [load EXCEPT ![t] = syns]
    /\ pc' = [pc EXCEPT ![t] = "countCS"]
    /\ UNCHANGED <<threshold, syns, cons, tickerPc, sinceReset>>
    /\ UNCHANGED <<pub, est, ok, rst, fwd, layerDst, wire>>
    /\ UNCHANGED <<arpVars, wifiVars, bloomVars, last>>
    /\ UNCHANGED <<dnsVars, hubVars, driverVars, crashed>>

\* The write of m.syns and m.Mutex.Unlock() (lines 109-110).
CountStore(t) ==
    /\ ~crashed
    /\ pc[t] = "countCS"
    /\ syns' = load[t] + 1
    /\ mutex' = 0
    /\ sinceReset' = sinceReset \cup {t}
    /\ pc' = [pc EXCEPT ![t] = "check"]
    /\ UNCHANGED <<threshold, cons, tickerPc, load>>
    /\ UNCHANGED <<pub, est, ok, rst, fwd, layerDst, wire>>
    /\ UNCHANGED <<arpVars, wifiVars, bloomVars, last>>
    /\ UNCHANGED <<dnsVars, hubVars, driverVars, crashed>>

\* m.Mutex.Lock() in the ticker goroutine (line 66).
TickerLock ==
    /\ ~crashed
    /\ tickerPc = "lock"
    /\ Acquire(mutex)
    /\ mutex' = TickerHolds
    /\ tickerPc' = "reset"
    /\ UNCHANGED <<threshold, syns, cons>>
    /\ UNCHANGED <<modVars, dnsVars, hubVars, driverVars, taskVars, crashed>>

\* m.syns = 0; m.Mutex.Unlock()  (lines 67-68)
TickerStore ==
    /\ ~crashed
    /\ tickerPc = "reset"
    /\ syns' = ResetSyns(syns)
    /\ mutex' = 0
    /\ sinceReset' = {}
    /\ tickerPc' = "wait"
    /\ UNCHANGED <<threshold, cons, load>>
    /\ UNCHANGED <<arpVars, wifiVars, bloomVars, last>>
    /\ UNCHANGED <<dnsVars, hubVars, driverVars, taskVars, crashed>>

\* The pipeline fed with SYN-only frames, the two critical sections of
\* m.syns as spans.
TaskC(t) ==
    \/ TaskStart(t)
    \/ CountLock(t)
    \/ CountStore(t)
    \/ TaskCheck(t)
    \/ TaskFinish(t)

NextCount ==
    \/ \E f \in SynFrames : DriverNext(f)
    \/ DriverEOF
    \/ DriverFinish
    \/ \E t \in Tasks : TaskC(t)
    \/ Tick
    \/ TickerLock
    \/ TickerStore

SpecCount == Init /\ [][NextCount]_vars

\* --------------------------------------------- the dispatcher on its own
InitHub ==
    /\ subscriptions = NewHub
    /\ subscribeLog = <<>>
    /\ hubLog = NoPublish
    /\ InitPipeline
    /\ InitNoDNS
    /\ InitNoModules

\* hub.Subscribe(s) for any subscriber s.
HubSubscribe(s) ==
    /\ Len(subscribeLog) < MaxSubscribes
    /\ subscriptions' = Subscribe(subscriptions, s)
    /\ subscribeLog' = Append(subscribeLog, s.name)
    /\ UNCHANGED <<hubLog, dosVars, driverVars, taskVars, crashed, dnsVars, modVars>>

\* hub.Publish(topic, args...), the handlers answering as in answers.
HubPublish(topic, answers) ==
    /\ LET r == Publish(subscriptions, topic, answers)
       IN  hubLog' = [topic |-> topic, answers |-> answers,
                      invoked |-> r.invoked, ret |-> r.ret,
                      at |-> Len(subscribeLog)]
    /\ UNCHANGED <<subscriptions, subscribeLog, dosVars, driverVars, taskVars, crashed, dnsVars, modVars>>

NextHub ==
    \/ \E s \in SubscriberPool : HubSubscribe(s)
    \/ \E topic \in TopicNames :
          \E answers \in [1..Len(subscriptions[topic]) -> BOOLEAN] :
             HubPublish(topic, answers)

SpecHub == InitHub /\ [][NextHub]_vars

\* The pipeline under the scheduler's fairness: the timer keeps firing, the
\* ticker goroutine and a goroutine holding the mutex keep running.  The
\* threshold, which the ticker does not read, is the largest one.
InitLive == Init /\ threshold = MaxThreshold

SpecLive ==
    /\ InitLive
    /\ [][Next]_vars
    /\ WF_vars(Tick)
    /\ WF_vars(TickerReset)
    /\ \A t \in Tasks : WF_vars(TaskEstablish(t))

\* ---------------------------------------------------------- dns/dns.go
\* Go offsets count from 0, sequences from 1.
At(d, i) == d[i + 1]

\* d[lo:hi]
Slice(d, lo, hi) == SubSeq(d, lo + 1, hi)

\* binary.BigEndian.Uint16(d[i:i+2])
U16(d, i) == At(d, i) * 256 + At(d, i + 1)

Period == 46

\* A label may be 63 octets or less (the number compared at line 693).
LabelLimit == 63

\* RFC 1035's limit on the length of a domain name (quoted at lines 654-656).
NameLimit == 255

\* The four ways a call of the decoder can end: it returns a value, it
\* returns an error, it panics on an index or slice bound outside the
\* slice, or it recurses until the runtime's stack limit ends the process.
NameOk(name, offset, ptr) ==
    [out |-> "ok", err |-> "", name |-> name, offset |-> offset, ptr |-> ptr]

NameError(msg) ==
    [out |-> "error", err |-> msg, name |-> <<>>, offset |-> 0, ptr |-> -1]

NamePanic ==
    [out |-> "panic", err |-> "index out of range", name |-> <<>>, offset |-> 0,
     ptr |-> -1]

NameOverflow ==
    [out |-> "overflow", err |-> "stack overflow", name |-> <<>>, offset |-> 0,
     ptr |-> -1]

\* data[index]&0xc0 == 0xc0
IsPointer(b) == b >= 192

\* int(binary.BigEndian.Uint16(data[index:index+2])) & 0x3fff
PointerTarget(d, index) == (At(d, index) % 64) * 256 + At(d, index + 1)

\* Lines 704-708: the buffer without the period appended last, if any.
TrimPeriod(buffer) ==
    IF Len(buffer) >= 1 /\ buffer[Len(buffer)] = Period
    THEN SubSeq(buffer, 1, Len(buffer) - 1)
    ELSE buffer

\* Lines 690-700, the label at index: the position after it and its bytes,
\* or the error of line 694.
decodeLabel(d, index) ==
    LET length == index + At(d, index) + 1
    IN  IF length - index > LabelLimit \/ length > Len(d)
        THEN [out |-> "error", err |-> "Label length too long", next |-> 0,
              bytes |-> <<>>]
        ELSE [out |-> "ok", err |-> "", next |-> length,
              bytes |-> Slice(d, index + 1, length)]

\* Mutant of PointerResult: the cursor of the recursive call is returned.
PointerResultInner(r, index) == [r EXCEPT !.ptr = index]

\* Line 688: the name decoded at the target, the cursor after the pointer
\* (ptr records where the pointer was met).
PointerResult(r, index) == [r EXCEPT !.offset = index + 2, !.ptr = index]

\* decodeDomainName; active holds the offsets of the calls of
\* decodeDomainName that have not returned: a call with one of them as its
\* offset repeats its caller and the recursion has no end.
RECURSIVE decodeNameFrom(_, _, _)
RECURSIVE decodeNameLoop(_, _, _, _)
decodeNameLoop(d, index, buffer, active) ==
    IF index >= Len(d) THEN NamePanic
    ELSE IF At(d, index) = 0 THEN NameOk(TrimPeriod(buffer), index + 1, -1)
    ELSE IF IsPointer(At(d, index))
    THEN IF index + 2 > Len(d) THEN NameError("Name pointer incomplete")
         ELSE LET r == decodeNameFrom(d, PointerTarget(d, index), active)
              IN  IF r.out = "ok" THEN PointerResult(r, index) ELSE r
    ELSE LET l == decodeLabel(d, index)
         IN  IF l.out = "error" THEN NameError(l.err)
             ELSE decodeNameLoop(d, l.next, buffer \o l.bytes \o <<Period>>, active)

decodeNameFrom(d, offset, active) ==
    IF offset >= Len(d) THEN NameError("Offset too large")
    ELSE IF offset \in active THEN NameOverflow
    ELSE decodeNameLoop(d, offset, <<>>, active \cup {offset})

decodeDomainName(d, offset) == decodeNameFrom(d, offset, {})

\* binary.BigEndian.Uint32(d[i:i+4]), as its high and low 16-bit halves.
U32(d, i) == <<U16(d, i), U16(d, i + 2)>>

\* DNSType values with a decoding of their own (lines 85-100).
DNSTypeA == 1
DNSTypeNS == 2
DNSTypeCName == 5
DNSTypeSOA == 6
DNSTypePTR == 12
DNSTypeMX == 15
DNSTypeTXT == 16

\* A question or resource decode that did not return a value: offset 0 and
\* the error, or the way the call ended otherwise.
ItemStop(out, err) == [out |-> out, err |-> err, offset |-> 0]

SlicePanic == ItemStop("panic", "slice bounds out of range")

\* Mutant of QuestionEnd: the class is not counted.
QuestionEndShort(offset) == offset + 2

\* Line 300: the cursor after QTYPE and QCLASS.
QuestionEnd(offset) == offset + 4

\* DNSQuestion.decode once the name has been decoded as n (lines 291-300).
QuestionAfterName(d, n) ==
    IF n.out # "ok" THEN ItemStop(n.out, n.err)
    ELSE IF n.offset + 4 > Len(d) THEN SlicePanic
    ELSE [out |-> "ok", err |-> "", offset |-> QuestionEnd(n.offset),
          kind |-> "question", name |-> n.name,
          type |-> U16(d, n.offset), class |-> U16(d, n.offset + 2)]

\* DNSQuestion.decode
QuestionDecode(d, offset) == QuestionAfterName(d, decodeDomainName(d, offset))

\* decodeCharacterStrings from index on; StringsAfter puts the string that
\* ends at length before those decoded after it as r.
StringsAfter(d, index, length, r) ==
    IF r.out # "ok" THEN r
    ELSE [r EXCEPT !.strings = <<Slice(d, index + 1, length)>> \o @]

RECURSIVE decodeCharacterStrings(_, _)
decodeCharacterStrings(d, index) ==
    IF index >= Len(d) THEN [out |-> "ok", err |-> "", strings |-> <<>>]
    ELSE IF index + At(d, index) + 1 > Len(d)
    THEN [out |-> "error", err |-> "Character string length too long",
          strings |-> <<>>]
    ELSE StringsAfter(d, index, index + At(d, index) + 1,
                      decodeCharacterStrings(d, index + At(d, index) + 1))

\* The value decoded from RDATA and the cursor where its decoding stopped.
RDataOk(value, used) == [out |-> "ok", err |-> "", value |-> value, used |-> used]

RDataStop(out, err) == [out |-> out, err |-> err, value |-> <<>>, used |-> 0]

\* A resource whose RDATA is one domain name, decoded as n.
RDataFromName(n) ==
    IF n.out # "ok" THEN RDataStop(n.out, n.err) ELSE RDataOk(n.name, n.offset)

RDataName(d, from) == RDataFromName(decodeDomainName(d, from))

\* Lines 425-433, MName decoded as m and RName as rn.
SOAAfterRName(d, m, rn) ==
    IF rn.out # "ok" THEN RDataStop(rn.out, rn.err)
    ELSE IF rn.offset + 20 > Len(d)
    THEN RDataStop("panic", "slice bounds out of range")
    ELSE RDataOk(<<m.name, rn.name,
                   U32(d, rn.offset), U32(d, rn.offset + 4),
                   U32(d, rn.offset + 8), U32(d, rn.offset + 12),
                   U32(d, rn.offset + 16)>>,
                 rn.offset + 20)

\* Lines 421-425.
SOAAfterMName(d, m) ==
    IF m.out # "ok" THEN RDataStop(m.out, m.err)
    ELSE SOAAfterRName(d, m, decodeDomainName(d, m.offset))

\* Lines 415-433.
RDataSOA(d, offset) == SOAAfterMName(d, decodeDomainName(d, offset))

\* Lines 444-447, Exchange decoded as n.
MXAfterName(d, offset, n) ==
    IF n.out # "ok" THEN n ELSE RDataOk(<<U16(d, offset), n.value>>, n.used)

\* Lines 442-447.
RDataMX(d, offset) ==
    IF offset + 2 > Len(d) THEN RDataStop("panic", "slice bounds out of range")
    ELSE MXAfterName(d, offset, RDataName(d, offset + 2))

\* Lines 449-452, the character strings decoded as t.
TXTAfterStrings(t, end) ==
    IF t.out # "ok" THEN RDataStop(t.out, t.err) ELSE RDataOk(t.strings, end)

\* Lines 448-452.
RDataTXT(d, offset, rdlength) ==
    TXTAfterStrings(decodeCharacterStrings(Slice(d, offset, offset + rdlength), 0),
                    offset + rdlength)

\* The switch of lines 395-457.
RDataDecode(d, type, offset, rdlength) ==
    CASE type = DNSTypeA -> RDataOk(Slice(d, offset, offset + rdlength), offset + rdlength)
      [] type \in {DNSTypeNS, DNSTypeCName, DNSTypePTR} -> RDataName(d, offset)
      [] type = DNSTypeSOA -> RDataSOA(d, offset)
      [] type = DNSTypeMX -> RDataMX(d, offset)
      [] type = DNSTypeTXT -> RDataTXT(d, offset, rdlength)
      [] OTHER -> RDataOk(Slice(d, offset, offset + rdlength), offset + rdlength)

\* Mutant of ResourceEnd: the cursor is where the RDATA decoding stopped.
ResourceEndUsed(offset, rdlength, used) == used

\* Line 459: the cursor after RDATA.
ResourceEnd(offset, rdlength, used) == offset + rdlength

\* Lines 453-459, RDATA decoded as rd.
ResourceAfterRData(d, n, type, rdlength, offset, rd) ==
    IF rd.out # "ok" THEN ItemStop(rd.out, rd.err)
    ELSE [out |-> "ok", err |-> "",
          offset |-> ResourceEnd(offset, rdlength, rd.used),
          kind |-> "resource", name |-> n.name,
          type |-> type, class |-> U16(d, n.offset + 2),
          ttl |-> U32(d, n.offset + 4),
          rdlength |-> rdlength, rdata |-> rd.value, used |-> rd.used]

\* Lines 388-457: offset is the start of RDATA.
ResourceAfterFixed(d, n, type, rdlength, offset) ==
    IF offset + rdlength > Len(d)
    THEN ItemStop("error", "Resource length is longer than the message length")
    ELSE ResourceAfterRData(d, n, type, rdlength, offset,
                            RDataDecode(d, type, offset, rdlength))

\* Lines 374-388, the name decoded as n.
ResourceAfterName(d, n) ==
    IF n.out # "ok" THEN ItemStop(n.out, n.err)
    ELSE IF n.offset + 10 > Len(d) THEN SlicePanic
    ELSE ResourceAfterFixed(d, n, U16(d, n.offset), U16(d, n.offset + 8),
                            n.offset + 10)

\* DNSResource.decode
ResourceDecode(d, offset) == ResourceAfterName(d, decodeDomainName(d, offset))

\* DNSHeader.decode: the identifier and the four counts.
HeaderDecode(d) ==
    [id |-> U16(d, 0), qdcount |-> U16(d, 4), ancount |-> U16(d, 6),
     nscount |-> U16(d, 8), arcount |-> U16(d, 10)]

\* &DNS{}
EmptyDNS ==
    [header |-> [id |-> 0, qdcount |-> 0, ancount |-> 0, nscount |-> 0,
                 arcount |-> 0],
     questions |-> <<>>, answers |-> <<>>, authorities |-> <<>>,
     additionals |-> <<>>]

ItemDecode(d, kind, offset) ==
    IF kind = "question" THEN QuestionDecode(d, offset) ELSE ResourceDecode(d, offset)

\* One of the four loops of DNS.decode: count items from offset on; items
\* holds those appended when the loop ended.  ItemsAfter is the loop body
\* once the item at offset has been decoded as r.
RECURSIVE decodeItems(_, _, _, _, _)
RECURSIVE ItemsAfter(_, _, _, _, _, _)
ItemsAfter(d, kind, count, offset, items, r) ==
    IF r.out # "ok"
    THEN [out |-> r.out, err |-> r.err, offset |-> r.offset, items |-> items,
          failedAt |-> offset]
    ELSE decodeItems(d, kind, count - 1, r.offset, Append(items, r))

decodeItems(d, kind, count, offset, items) ==
    IF count = 0
    THEN [out |-> "ok", err |-> "", offset |-> offset, items |-> items,
          failedAt |-> 0]
    ELSE ItemsAfter(d, kind, count, offset, items, ItemDecode(d, kind, offset))

\* What DNS.decode leaves: how it ended, the struct it was called on, its
\* cursor, and the number of items decoded and the offset of the item that
\* failed, if one did.
DNSResult(s, dns) ==
    [out |-> s.out, err |-> s.err, dns |-> dns, cursor |-> s.offset,
     done |-> Len(dns.questions) + Len(dns.answers) + Len(dns.authorities)
                  + Len(dns.additionals),
     failedAt |-> s.failedAt]

\* Lines 597-608, the additionals decoded as ar.
AfterAdditionals(d, dns, ar) == DNSResult(ar, [dns EXCEPT !.additionals = ar.items])

\* Lines 586-606, the authorities decoded as ns.
AfterAuthorities(d, dns, ns) ==
    IF ns.out # "ok" THEN DNSResult(ns, [dns EXCEPT !.authorities = ns.items])
    ELSE AfterAdditionals(d, [dns EXCEPT !.authorities = ns.items],
             decodeItems(d, "resource", dns.header.arcount, ns.offset, <<>>))

\* Lines 575-606, the answers decoded as an.
AfterAnswers(d, dns, an) ==
    IF an.out # "ok" THEN DNSResult(an, [dns EXCEPT !.answers = an.items])
    ELSE AfterAuthorities(d, [dns EXCEPT !.answers = an.items],
             decodeItems(d, "resource", dns.header.nscount, an.offset, <<>>))

\* Lines 564-606, the questions decoded as q.
AfterQuestions(d, dns, q) ==
    IF q.out # "ok" THEN DNSResult(q, [dns EXCEPT !.questions = q.items])
    ELSE AfterAnswers(d, [dns EXCEPT !.questions = q.items],
             decodeItems(d, "resource", dns.header.ancount, q.offset, <<>>))

\* Lines 560-606, the header decoded as h.
AfterHeader(d, h) ==
    AfterQuestions(d, [EmptyDNS EXCEPT !.header = h],
                   decodeItems(d, "question", h.qdcount, 12, <<>>))

\* DNS.decode
DNSDecode(d) ==
    IF Len(d) < 12
    THEN [out |-> "error", err |-> "Too small byte slice supplied",
          dns |-> EmptyDNS, cursor |-> 0, done |-> 0, failedAt |-> 0]
    ELSE AfterHeader(d, HeaderDecode(d))

\* Mutant of ReturnDNS: the struct is returned as the failed decode left it.
ReturnDNSPartial(r) == r

\* DecodeDNS, lines 545-548: on an error a fresh &DNS{} is returned with it.
ReturnDNS(r) == IF r.out = "error" THEN [r EXCEPT !.dns = EmptyDNS] ELSE r

\* DecodeDNS
DecodeDNS(d) == ReturnDNS(DNSDecode(d))

\* ------------------------------------------------------- decoder inputs
\* Every byte string over ByteSample of at most MaxSmall bytes.
ByteSample == {0, 1, 2, 97, 192}

SmallInputs == UNION { [1..n -> ByteSample] : n \in 0..MaxSmall }

\* The n bytes of a label, all different from 0 and from the period.
LabelBytes(n) == [i \in 1..n |-> 97 + (i % 26)]

Label(n) == <<n>> \o LabelBytes(n)

RECURSIVE Repeat(_, _)
Repeat(chunk, k) == IF k = 0 THEN <<>> ELSE chunk \o Repeat(chunk, k - 1)

\* The name "ab": a target for compression pointers.
ShortName == <<2, 97, 98, 0>>

LabelLens == {1, 62, 63, 64}

\* What follows the labels of a name that begins at offset base and whose
\* labels end at offset pos: the root label, nothing, a pointer to offset 0,
\* to the name's own start, to itself, beyond the data, and half a pointer.
Tails(base, pos) ==
    { <<0>>, <<>>, <<192, 0>>,
      <<192 + (base \div 256), base % 256>>,
      <<192 + (pos \div 256), pos % 256>>,
      <<207, 255>>, <<192>> }

\* Names of up to MaxLabels equal labels after an optional ShortName, with
\* the offsets at which they are decoded.
NameInputs ==
    UNION { UNION { { [d |-> prefix \o Repeat(Label(n), k) \o tail, at |-> at] :
                        tail \in Tails(Len(prefix), Len(prefix) + k * (n + 1)),
                        at \in {0, Len(prefix), Len(prefix) + k * (n + 1)} } :
                    n \in LabelLens, k \in 0..MaxLabels } :
            prefix \in {<<>>, ShortName} }

\* The twelve header bytes of a message with the given counts.
Header(qd, an, ns, ar) == <<4, 210, 1, 0, 0, qd, 0, an, 0, ns, 0, ar>>

\* The k-th question of a message: the first spells its name at offset 12,
\* the others point to it.
QuestionBytes(k) == (IF k = 1 THEN ShortName ELSE <<192, 12>>) \o <<0, 1, 0, 1>>

RECURSIVE QuestionsBytes(_, _)
QuestionsBytes(k, qd) ==
    IF k > qd THEN <<>> ELSE QuestionBytes(k) \o QuestionsBytes(k + 1, qd)

RRTypes ==
    {DNSTypeA, DNSTypeNS, DNSTypeCName, DNSTypeSOA, DNSTypePTR, DNSTypeMX,
     DNSTypeTXT, 99}

\* RDATA of a well-formed resource of the type, its names written as nm.
RDataBytes(type, nm) ==
    CASE type = DNSTypeA -> <<192, 168, 0, 1>>
      [] type \in {DNSTypeNS, DNSTypeCName, DNSTypePTR} -> nm
      [] type = DNSTypeSOA -> nm \o nm \o [i \in 1..20 |-> i]
      [] type = DNSTypeMX -> <<0, 10>> \o nm
      [] type = DNSTypeTXT -> <<2, 104, 105, 0>>
      [] OTHER -> <<1, 2, 3>>

\* A resource: name, type, class IN, a TTL, RDLENGTH and RDATA followed by
\* pad bytes that RDLENGTH counts too.
RRBytes(type, nm, pad) ==
    LET rd == RDataBytes(type, nm) \o pad
    IN  nm \o <<0, type, 0, 1, 0, 0, 255, 255, 0, Len(rd)>> \o rd

\* The name of a resource: a pointer to the first question, or spelled out
\* when there is no question.
RRName(qd) == IF qd >= 1 THEN <<192, 12>> ELSE ShortName

RECURSIVE RRsBytes(_, _, _)
RRsBytes(types, i, qd) ==
    IF i > Len(types) THEN <<>>
    ELSE RRBytes(types[i], RRName(qd), <<>>) \o RRsBytes(types, i + 1, qd)

\* The ways to give n resources to the answer and authority sections, the
\* rest being additionals.
Splits(n) == { c \in (0..n) \X (0..n) : c[1] + c[2] <= n }

\* The well-formed messages: up to MaxQuestions questions and up to MaxRRs
\* resources of any types, spread over the three resource sections.
ValidMessages ==
    UNION { UNION { { Header(qd, c[1], c[2], Len(types) - c[1] - c[2])
                        \o QuestionsBytes(1, qd) \o RRsBytes(types, 1, qd) :
                      c \in Splits(Len(types)) } :
                    types \in UNION { [1..n -> RRTypes] : n \in 1..MaxRRs } } :
            qd \in 0..MaxQuestions }
    \cup { Header(qd, 0, 0, 0) \o QuestionsBytes(1, qd) : qd \in 0..MaxQuestions }

\* Messages of at most one question and one resource, to be cut short.
OneItemMessages ==
    { Header(1, 0, 0, 0) \o QuestionsBytes(1, 1) }
    \cup UNION { { Header(qd, 1, 0, 0) \o QuestionsBytes(1, qd)
                     \o RRBytes(type, RRName(qd), <<>>) : qd \in 0..1 } :
                 type \in RRTypes }

\* Every proper prefix that keeps the header.
CutMessages ==
    UNION { { SubSeq(m, 1, n) : n \in 12..(Len(m) - 1) } : m \in OneItemMessages }

\* Messages that are not well-formed although every byte is there:
\* resources whose RDLENGTH counts bytes after their RDATA, a question whose
\* name is a pointer to itself, a question with a label of 63 octets, and a
\* header announcing a question that is not there.
CraftedMessages ==
    { Header(0, 1, 0, 0) \o RRBytes(type, ShortName, <<0, 0>>) : type \in RRTypes }
    \cup { Header(1, 0, 0, 0) \o <<192, 12, 0, 1, 0, 1>>,
           Header(1, 0, 0, 0) \o Label(63) \o <<0, 0, 1, 0, 1>>,
           Header(2, 0, 0, 0) \o QuestionsBytes(1, 1) \o <<64>>,
           Header(1, 0, 0, 0) }

\* ------------------------------------------------- the decoder on its own
InitIdle ==
    /\ subscriptions = SubscribeAll(NewHub, MainModules, 1)
    /\ subscribeLog = <<"DoSModule", "LogModule">>
    /\ hubLog = NoPublish
    /\ InitPipeline
    /\ threshold = 0
    /\ InitNoModules

\* A byte string and an offset into it (or one past it).
InitDNS ==
    /\ InitIdle
    /\ res = NoResult
    /\ \/ /\ data \in SmallInputs
          /\ start \in 0..Len(data)
          /\ valid = FALSE
       \/ \E i \in NameInputs :
             /\ data = i.d
             /\ start = i.at
             /\ valid = FALSE
       \/ /\ data \in ValidMessages
          /\ start = 12
          /\ valid = TRUE
       \/ /\ data \in CutMessages \cup CraftedMessages
          /\ start = 12
          /\ valid = FALSE

\* decodeDomainName(data, start)
DecodeName ==
    /\ res' = [fn |-> "name", r |-> decodeDomainName(data, start)]
    /\ UNCHANGED <<data, start, valid>>
    /\ UNCHANGED <<hubVars, dosVars, driverVars, taskVars, crashed, modVars>>

\* The loop of decodeDomainName meets a label at start (lines 689-701).
DecodeLabel ==
    /\ start < Len(data)
    /\ At(data, start) # 0
    /\ ~IsPointer(At(data, start))
    /\ res' = [fn |-> "label", r |-> decodeLabel(data, start)]
    /\ UNCHANGED <<data, start, valid>>
    /\ UNCHANGED <<hubVars, dosVars, driverVars, taskVars, crashed, modVars>>

\* q.decode(data, start) on a fresh DNSQuestion
DecodeQuestion ==
    /\ res' = [fn |-> "question", r |-> QuestionDecode(data, start)]
    /\ UNCHANGED <<data, start, valid>>
    /\ UNCHANGED <<hubVars, dosVars, driverVars, taskVars, crashed, modVars>>

\* r.decode(data, start) on a fresh DNSResource
DecodeResource ==
    /\ res' = [fn |-> "resource", r |-> ResourceDecode(data, start)]
    /\ UNCHANGED <<data, start, valid>>
    /\ UNCHANGED <<hubVars, dosVars, driverVars, taskVars, crashed, modVars>>

\* DecodeDNS(data)
DecodeMessage ==
    /\ res' = [fn |-> "message", r |-> DecodeDNS(data)]
    /\ UNCHANGED <<data, start, valid>>
    /\ UNCHANGED <<hubVars, dosVars, driverVars, taskVars, crashed, modVars>>

NextDNS ==
    DecodeName \/ DecodeLabel \/ DecodeQuestion \/ DecodeResource \/ DecodeMessage

SpecDNS == InitDNS /\ [][NextDNS]_vars

\* ---------------------------------------------------------- arp/arp.go
BroadcastAddress == <<255, 255, 255, 255, 255, 255>>

ARPOpcodeRequest == 1
ARPOpcodeReply == 2
LinkTypeEthernet == 1
EtherTypeIPv4 == 2048
EtherTypeARP == 2054
EtherTypeIPv6 == 34525

\* LinkType(v) for a uint16 v: LinkType is a uint8 (line 77) and the
\* conversion keeps the low byte.
LinkType(v) == v % 256

\* Arithmetic on HLength and PLength is arithmetic on uint8 values.
U8(n) == n % 256

\* &ARP{}
EmptyARP ==
    [HAddress |-> 0, PAddress |-> 0, HLength |-> 0, PLength |-> 0, Opcode |-> 0,
     SHAddress |-> <<>>, SPAddress |-> <<>>, THAddress |-> <<>>,
     TPAddress |-> <<>>]

\* How a call of ARP.decode ended and the struct it was called on.
ARPStop(out, err, a) == [out |-> out, err |-> err, arp |-> a]

ARPPanic(a) == ARPStop("panic", "slice bounds out of range", a)

\* d[lo:hi] does not panic.
SliceOk(d, lo, hi) == lo <= hi /\ hi <= Len(d)

\* Lines 189-193, the four slice ends being o1..o4.
AddressesDecode(d, a, o1, o2, o3, o4) ==
    IF ~(SliceOk(d, 8, o1) /\ SliceOk(d, o1, o2) /\ SliceOk(d, o2, o3)
           /\ SliceOk(d, o3, o4))
    THEN ARPPanic(a)
    ELSE ARPStop("ok", "",
                 [a EXCEPT !.SHAddress = Slice(d, 8, o1),
                           !.SPAddress = Slice(d, o1, o2),
                           !.THAddress = Slice(d, o2, o3),
                           !.TPAddress = Slice(d, o3, o4)])

\* Lines 182-193, a holding the fields decoded before.
OpcodeDecode(d, a) ==
    IF a.Opcode \notin {ARPOpcodeRequest, ARPOpcodeReply}
    THEN ARPStop("error", "Opcode type should be 1 (REQUEST) or 2 (REPLY)", a)
    ELSE AddressesDecode(d, a,
                         U8(8 + a.HLength),
                         U8(8 + a.HLength + a.PLength),
                         U8(8 + 2 * a.HLength + a.PLength),
                         U8(8 + 2 * a.HLength + 2 * a.PLength))

\* Lines 173-182, a holding the fields decoded before.
EtherTypeDecode(d, a) ==
    IF a.PAddress \notin {EtherTypeIPv4, EtherTypeIPv6, EtherTypeARP}
    THEN ARPStop("error",
                 "Ethernet types other than IPv4, ARP and IPv6 are not supported", a)
    ELSE IF Len(d) < 8 THEN ARPPanic(a)
    ELSE OpcodeDecode(d, [a EXCEPT !.HLength = At(d, 4), !.PLength = At(d, 5),
                                   !.Opcode = U16(d, 6)])

\* Lines 169-173, a holding the fields decoded before.
LinkTypeDecode(d, a) ==
    IF a.HAddress # LinkTypeEthernet
    THEN ARPStop("error",
                 "Link layer protocols other than Ethernet are not supported", a)
    ELSE IF Len(d) < 4 THEN ARPPanic(a)
    ELSE EtherTypeDecode(d, [a EXCEPT !.PAddress = U16(d, 2)])

\* ARP.decode
ARPDecode(d) ==
    IF Len(d) < 2 THEN ARPPanic(EmptyARP)
    ELSE LinkTypeDecode(d, [EmptyARP EXCEPT !.HAddress = LinkType(U16(d, 0))])

\* DecodeARP, lines 162-165: on an error a fresh &ARP{} is returned with it.
ReturnARP(r) == IF r.out = "error" THEN [r EXCEPT !.arp = EmptyARP] ELSE r

\* DecodeARP
DecodeARP(d) == ReturnARP(ARPDecode(d))

\* ARP.IsUnicastRequest
IsUnicastRequest(a) == a.THAddress # BroadcastAddress

\* ARP.IsGratuitous
IsGratuitous(a) == a.SPAddress = a.TPAddress /\ a.THAddress = BroadcastAddress

\* ARP.IsBindingEthernet
IsBindingEthernet(a) == a.SHAddress = BroadcastAddress

\* ARP.IsBroadcastReply
IsBroadcastReply(a) == a.TPAddress = BroadcastAddress

\* ------------------------------------------------------ ARP byte strings
\* The two bytes of a 16-bit value, most significant first.
U16Bytes(v) == <<v \div 256, v % 256>>

\* An ARP message in wire order (RFC 826, quoted at lines 128-143).
ARPBytes(hw, proto, hlen, plen, op, sha, spa, tha, tpa) ==
    U16Bytes(hw) \o U16Bytes(proto) \o <<hlen, plen>> \o U16Bytes(op)
        \o sha \o spa \o tha \o tpa

\* Hardware types: Ethernet, the one of TestDecodeInvalidLinkType, and
\* values of one and of two significant bytes.
HardwareTypes == {1, 16, 0, 2, 257, 513, 256}

\* Protocol types: the three supported and the one of
\* TestDecodeInvalidEtherType.
ProtocolTypes == {EtherTypeIPv4, EtherTypeARP, EtherTypeIPv6, 2065, 0}

\* Opcodes: the two supported and the one of TestDecodeInvalidOpcode.
Opcodes == {ARPOpcodeRequest, ARPOpcodeReply, 33, 0, 258}

\* Addresses of TestDecode and of the README's configuration example.
MacA == <<8, 158, 1, 218, 109, 176>>
MacB == <<170, 187, 204, 221, 238, 255>>
IP5 == <<192, 168, 0, 5>>
IP1 == <<192, 168, 0, 1>>

\* Address lengths and addresses of these lengths.
AddressLengths ==
    {<<6, 4>>, <<6, 6>>, <<0, 0>>, <<1, 2>>, <<123, 0>>, <<124, 0>>, <<128, 1>>,
     <<248, 0>>, <<0, 255>>, <<255, 255>>}

Address(n, fill) == [i \in 1..n |-> fill]

\* The fields of a byte string of at least eight bytes, as they are on the
\* wire.
WireHardwareType(d) == U16(d, 0)
WireProtocolType(d) == U16(d, 2)
WireHLength(d) == At(d, 4)
WirePLength(d) == At(d, 5)
WireOpcode(d) == U16(d, 6)

\* Every combination of the header fields over Ethernet/IPv4 addresses.
HeaderInputs ==
    { ARPBytes(hw, proto, 6, 4, op, MacA, IP5, BroadcastAddress, IP1) :
        hw \in HardwareTypes, proto \in ProtocolTypes, op \in Opcodes }

\* Messages with addresses of other lengths, exactly as long as their
\* length fields say.
LengthInputs ==
    { ARPBytes(hw, EtherTypeIPv4, l[1], l[2], ARPOpcodeReply,
               Address(l[1], 17), Address(l[2], 34), Address(l[1], 51),
               Address(l[2], 68)) :
        hw \in {1, 257}, l \in AddressLengths }

TestPacket ==
    ARPBytes(1, EtherTypeIPv4, 6, 4, ARPOpcodeRequest, MacA, <<192, 168, 0, 25>>,
             BroadcastAddress, <<192, 168, 0, 13>>)

\* Every proper prefix of the packet of TestDecode, and the packet followed
\* by the padding of a minimum-size Ethernet frame.
CutInputs == { SubSeq(TestPacket, 1, n) : n \in 0..(Len(TestPacket) - 1) }

PaddedInputs == { TestPacket \o Address(n, 0) : n \in {1, MaxPadding} }

ARPInputs == HeaderInputs \cup LengthInputs \cup CutInputs \cup PaddedInputs

\* ------------------------------------------- the ARP decoder on its own
InitModulesIdle ==
    /\ subscriptions = SubscribeAll(NewHub, MainModules, 1)
    /\ subscribeLog = <<"DoSModule", "LogModule">>
    /\ hubLog = NoPublish
    /\ InitPipeline
    /\ threshold = 0
    /\ InitNoDNS

InitARPDecoder ==
    /\ InitModulesIdle
    /\ InitNoModules

\* DecodeARP(d)
DecodeARPCall(d) ==
    /\ last' = [fn |-> "DecodeARP", data |-> d, partial |-> ARPDecode(d),
                r |-> DecodeARP(d)]
    /\ UNCHANGED <<hubVars, dosVars, driverVars, taskVars, crashed, dnsVars>>
    /\ UNCHANGED <<arpVars, wifiVars, bloomVars, countVars>>

NextARPDecoder == \E d \in ARPInputs : DecodeARPCall(d)

SpecARPDecoder == InitARPDecoder /\ [][NextARPDecoder]_vars

\* ------------------------------------------------- Go values and strings
\* A string built by fmt.Sprintf(format, args...), or a literal (no args).
Sprintf(format, args) == [format |-> format, args |-> args]

Text(literal) == Sprintf(literal, <<>>)

\* What the modules look at in a gopacket.Packet: whether it has an ARP
\* layer, the payload of its link layer, and its 802.11 layers.
NoDot11 ==
    [present |-> FALSE, type |-> "none", wep |-> FALSE, wepLayer |-> FALSE,
     contents |-> <<>>, address1 |-> <<>>]

Packet(arpLayer, payload, dot11) ==
    [arp |-> arpLayer, payload |-> payload, dot11 |-> dot11]

NoPacket == Packet(FALSE, <<>>, NoDot11)

\* The interface{} values handed to a handler: strings, packets, and values
\* of any other type.
GoString(s) == [type |-> "string", str |-> s, pkt |-> NoPacket]

GoPacket(p) == [type |-> "packet", str |-> Text(""), pkt |-> p]

GoInt == [type |-> "int", str |-> Text(""), pkt |-> NoPacket]

\* The keys of the configuration's arp-bindings and its MAC addresses are
\* strings of characters: an IPv4 address in dotted decimal, a MAC address
\* as six pairs of hexadecimal digits with colons.
RECURSIVE DecimalString(_)
DecimalString(n) ==
    IF n < 10 THEN <<48 + n>> ELSE DecimalString(n \div 10) \o <<48 + (n % 10)>>

DottedString(ip) ==
    DecimalString(ip[1]) \o <<46>> \o DecimalString(ip[2]) \o <<46>>
        \o DecimalString(ip[3]) \o <<46>> \o DecimalString(ip[4])

HexDigit(v) == IF v < 10 THEN 48 + v ELSE 87 + v

HexPair(b) == <<HexDigit(b \div 16), HexDigit(b % 16)>>

MACString(mac) ==
    HexPair(mac[1]) \o <<58>> \o HexPair(mac[2]) \o <<58>> \o HexPair(mac[3])
        \o <<58>> \o HexPair(mac[4]) \o <<58>> \o HexPair(mac[5]) \o <<58>>
        \o HexPair(mac[6])

\* The value of a hexadecimal digit, -1 for any other character.
HexValue(c) ==
    IF c >= 48 /\ c <= 57 THEN c - 48
    ELSE IF c >= 97 /\ c <= 102 THEN c - 87
    ELSE IF c >= 65 /\ c <= 70 THEN c - 55
    ELSE -1

\* net.ParseMAC for the 48-bit forms xx:xx:xx:xx:xx:xx and xx-xx-xx-xx-xx-xx;
\* a string of fewer than 14 characters is an error.
ParseMAC(s) ==
    IF /\ Len(s) = 17
       /\ s[3] \in {58, 45}
       /\ \A i \in 1..5 : s[3 * i] = s[3]
       /\ \A i \in 0..5 : HexValue(s[3 * i + 1]) >= 0 /\ HexValue(s[3 * i + 2]) >= 0
    THEN [ok |-> TRUE,
          mac |-> [i \in 1..6 |->
                      HexValue(s[3 * i - 2]) * 16 + HexValue(s[3 * i - 1])]]
    ELSE [ok |-> FALSE, mac |-> <<>>]

\* ------------------------------------------------- module/arpmodule.go
\* The inner loop of Init (lines 45-52): the MAC addresses of one IP address
\* that parse, in the order of the configuration.
RECURSIVE ParseMACs(_, _)
ParseMACs(macs, i) ==
    IF i > Len(macs) THEN <<>>
    ELSE (IF ParseMAC(macs[i]).ok THEN <<ParseMAC(macs[i]).mac>> ELSE <<>>)
             \o ParseMACs(macs, i + 1)

\* The map Init builds (lines 42-53): a key for every configured IP string
\* with at least one MAC address that parses.  Maps are sets of entries.
BuildBindings(bindings) ==
    { [ip |-> e.ip, macs |-> ParseMACs(e.macs, 1)] :
        e \in { x \in bindings : ParseMACs(x.macs, 1) # <<>> } }

\* Init has a value receiver (line 41): it assigns to the validBindings of a
\* copy of the module, and the module on the hub keeps its own.
ReceiverAfterInit(own, built) == own

\* m.validBindings[key]: nil for a key the map does not have.
MACsOf(bindings, key) ==
    IF \E e \in bindings : e.ip = key
    THEN (CHOOSE e \in bindings : e.ip = key).macs
    ELSE <<>>

\* Mutant of isValidBinding: an IP address without configured MAC addresses
\* may bind to any.
isValidBindingOpen(bindings, a) ==
    \/ Len(MACsOf(bindings, a.SPAddress)) = 0
    \/ \E i \in 1..Len(MACsOf(bindings, a.SPAddress)) :
          MACsOf(bindings, a.SPAddress)[i] = a.SHAddress

\* isValidBinding: the key is string(a.SPAddress), the bytes of the address.
isValidBinding(bindings, a) ==
    \E i \in 1..Len(MACsOf(bindings, a.SPAddress)) :
       MACsOf(bindings, a.SPAddress)[i] = a.SHAddress

\* The format strings of lines 82-88.
unicastRequest == "Host %v is unicasting an ARP request to host %v"
gratuitous == "Host %v sent a gratuitous %v"
bindEthernet == "Host %v is trying to bind to the Ethernet broadcast address"
broadcastReply == "Host %v is replying to a request from host %v using a broadcast message"
invalidBinding == "Host %v is trying to bind to MAC address %v that is not in the list"

\* A call of Hub.Publish(topic, args...).
Publication(topic, args) == [topic |-> topic, args |-> args]

\* Lines 119-121.
PublishLog(cat, msg) ==
    <<Publication("log", <<GoString(Text(cat)), GoString(msg)>>)>>

\* Lines 95-102: the publications analyse makes for a request.
AnalyseRequest(a) ==
    IF IsGratuitous(a)
    THEN PublishLog("notice", Sprintf(gratuitous, <<a.SPAddress, <<a.Opcode>>>>))
    ELSE IF IsUnicastRequest(a)
    THEN PublishLog("notice", Sprintf(unicastRequest, <<a.SPAddress, a.TPAddress>>))
    ELSE <<>>

\* Mutant of AnalyseReply: the broadcast reply and the gratuitous reply are
\* looked for first.
AnalyseReplyBindingLast(bindings, a) ==
    IF IsBroadcastReply(a)
    THEN PublishLog("notice", Sprintf(broadcastReply, <<a.SPAddress, a.TPAddress>>))
    ELSE IF IsGratuitous(a)
    THEN PublishLog("notice", Sprintf(gratuitous, <<a.SPAddress, <<a.Opcode>>>>))
    ELSE IF IsBindingEthernet(a)
    THEN PublishLog("error", Sprintf(bindEthernet, <<a.SPAddress>>))
    ELSE IF ~isValidBinding(bindings, a)
    THEN PublishLog("notice", Sprintf(invalidBinding, <<a.SPAddress, a.SHAddress>>))
    ELSE <<>>

\* Lines 103-116: the publications analyse makes for a reply.
AnalyseReply(bindings, a) ==
    IF IsBindingEthernet(a)
    THEN PublishLog("error", Sprintf(bindEthernet, <<a.SPAddress>>))
    ELSE IF IsBroadcastReply(a)
    THEN PublishLog("notice", Sprintf(broadcastReply, <<a.SPAddress, a.TPAddress>>))
    ELSE IF IsGratuitous(a)
    THEN PublishLog("notice", Sprintf(gratuitous, <<a.SPAddress, <<a.Opcode>>>>))
    ELSE IF ~isValidBinding(bindings, a)
    THEN PublishLog("notice", Sprintf(invalidBinding, <<a.SPAddress, a.SHAddress>>))
    ELSE <<>>

\* ARPModule.analyse
analyse(bindings, a) ==
    IF a.Opcode = ARPOpcodeRequest THEN AnalyseRequest(a)
    ELSE IF a.Opcode = ARPOpcodeReply THEN AnalyseReply(bindings, a)
    ELSE <<>>

\* LogModule.Receive (lines 219-245) once the category is known.
LogRender(cat, args) ==
    IF args[2].type # "string" THEN [ret |-> TRUE, lines |-> <<>>]
    ELSE IF cat = Text("notice")
    THEN [ret |-> TRUE, lines |-> <<[prefix |-> "WARNING: ", msg |-> args[2].str]>>]
    ELSE IF cat = Text("error")
    THEN [ret |-> TRUE, lines |-> <<[prefix |-> "ERROR: ", msg |-> args[2].str]>>]
    ELSE [ret |-> TRUE, lines |-> <<>>]

\* LogModule.Receive: the verdict and the lines printed to standard output.
LogReceive(args) ==
    IF Len(args) # 2 THEN [ret |-> TRUE, lines |-> <<>>]
    ELSE LogRender(IF args[1].type = "string" THEN args[1].str ELSE Text("notice"),
                   args)

\* h.subscriptions[topic] (hub.go, line 55): nil for a topic without
\* subscriptions.
SubscriptionsOf(table, topic) ==
    IF topic \in DOMAIN table THEN table[topic] ELSE <<>>

\* Hub.Publish called by a module: the lines the Log module prints, being
\* invoked once for each of its subscriptions to the topic (its verdict is
\* true, so the loop goes on).  No other module subscribes to a topic a
\* module publishes on.
RECURSIVE RenderFrom(_, _, _)
RenderFrom(subs, args, i) ==
    IF i > Len(subs) THEN <<>>
    ELSE (IF subs[i] = "LogModule" THEN LogReceive(args).lines ELSE <<>>)
             \o RenderFrom(subs, args, i + 1)

RECURSIVE RenderAll(_, _, _)
RenderAll(table, pubs, i) ==
    IF i > Len(pubs) THEN <<>>
    ELSE RenderFrom(SubscriptionsOf(table, pubs[i].topic), pubs[i].args, 1)
             \o RenderAll(table, pubs, i + 1)

\* A call of ARPModule.Receive: how it ended, the result of DecodeARP if it
\* was called, the publications made and the lines they made the Log module
\* print.
ARPOutcome(table, out, r, pubs) ==
    [out |-> out, decoded |-> r.out, arp |-> r.arp, published |-> pubs,
     rendered |-> RenderAll(table, pubs, 1)]

NotDecoded == ARPStop("none", "", EmptyARP)

\* Lines 74-79, DecodeARP having ended as r.
ReceiveDecoded(bindings, table, r) ==
    IF r.out = "panic" THEN ARPOutcome(table, "panic", r, <<>>)
    ELSE IF r.out = "error"
    THEN ARPOutcome(table, "return", r,
                    <<Publication("error", <<GoString(Text(r.err))>>)>>)
    ELSE ARPOutcome(table, "return", r, analyse(bindings, r.arp))

\* ARPModule.Receive
ARPReceiveResult(bindings, table, args) ==
    IF Len(args) = 0 THEN ARPOutcome(table, "panic", NotDecoded, <<>>)
    ELSE IF args[1].type # "packet" THEN ARPOutcome(table, "return", NotDecoded, <<>>)
    ELSE IF ~args[1].pkt.arp THEN ARPOutcome(table, "return", NotDecoded, <<>>)
    ELSE ReceiveDecoded(bindings, table, DecodeARP(args[1].pkt.payload))

\* ------------------------------------------------- ARP module inputs
\* Configurations: no file (the defaults of config.New), a file without
\* bindings, the binding of one address, and bindings of two addresses with
\* a MAC address that does not parse among them.
Bindings(ip, macs) == [ip |-> DottedString(ip), macs |-> macs]

Configs ==
    { NoConfig,
      [given |-> TRUE, bindings |-> {}],
      [given |-> TRUE, bindings |-> {Bindings(IP5, <<MACString(MacA)>>)}],
      [given |-> TRUE,
       bindings |-> {Bindings(IP5, <<<<97, 97, 58, 98, 98>>, MACString(MacB),
                                     MACString(MacA)>>),
                     Bindings(IP1, <<MACString(MacB)>>)}] }

\* Requests and replies over Ethernet and IPv4, replies with protocol
\* addresses of six bytes, messages DecodeARP rejects and a truncated one.
ModuleFrames ==
    { ARPBytes(1, EtherTypeIPv4, 6, 4, op, sha, spa, tha, tpa) :
        op \in {ARPOpcodeRequest, ARPOpcodeReply}, sha \in {MacA, BroadcastAddress},
        spa \in {IP5, IP1}, tha \in {MacA, BroadcastAddress}, tpa \in {IP5, IP1} }
    \cup { ARPBytes(1, EtherTypeIPv4, 6, 4, ARPOpcodeReply, MacB, IP5, MacA, IP1) }
    \cup { ARPBytes(1, EtherTypeIPv4, 6, 6, ARPOpcodeReply, sha, Address(6, 34),
                    MacA, BroadcastAddress) : sha \in {MacA, BroadcastAddress} }
    \cup { ARPBytes(16, EtherTypeIPv4, 6, 4, ARPOpcodeRequest, MacA, IP5, MacA, IP1),
           ARPBytes(1, 2065, 6, 4, ARPOpcodeRequest, MacA, IP5, MacA, IP1),
           ARPBytes(1, EtherTypeIPv4, 6, 4, 33, MacA, IP5, MacA, IP1),
           SubSeq(TestPacket, 1, 20) }

\* The packets published on topic packet: with an ARP layer, or without.
ARPPackets == { Packet(TRUE, f, NoDot11) : f \in ModuleFrames } \cup {NoPacket}

\* ------------------------------------------------ the ARP module on its own
\* main's list of modules with the ARP module in it (main.go, line 98).
ARPMainModules ==
    << [name |-> "ARPModule", topics |-> ARPTopics],
       [name |-> "DoSModule", topics |-> DoSTopics],
       [name |-> "LogModule", topics |-> LogTopics] >>

\* State when main enters the packet loop, Init having been called with the
\* configuration.
InitARP ==
    /\ subscriptions = SubscribeAll(NewHub, ARPMainModules, 1)
    /\ subscribeLog = <<"ARPModule", "DoSModule", "LogModule">>
    /\ hubLog = NoPublish
    /\ InitPipeline
    /\ threshold = 0
    /\ InitNoDNS
    /\ config \in Configs
    /\ initCopy = BuildBindings(config.bindings)
    /\ validBindings = ReceiverAfterInit({}, initCopy)
    /\ seen = <<>>
    /\ interval = 0
    /\ now = 0
    /\ prevDeauthTime = ZeroTime
    /\ prevWEPTime = ZeroTime
    /\ weps = <<>>
    /\ received = <<>>
    /\ InitNoBloom
    /\ InitNoCount
    /\ last = NoCall

\* hub.Publish("packet", p) reaches ARPModule.Receive, the first subscriber.
ARPReceive(p) ==
    /\ ~crashed
    /\ Len(seen) < MaxARPFrames
    /\ seen' = Append(seen, ARPReceiveResult(validBindings, subscriptions,
                                             <<GoPacket(p)>>))
    /\ crashed' = (ARPReceiveResult(validBindings, subscriptions,
                                    <<GoPacket(p)>>).out = "panic")
    /\ UNCHANGED <<config, initCopy, validBindings, wifiVars, bloomVars, countVars, last>>
    /\ UNCHANGED <<hubVars, dosVars, driverVars, taskVars, dnsVars>>

NextARP == \E p \in ARPPackets : ARPReceive(p)

SpecARP == InitARP /\ [][NextARP]_vars

\* ------------------------------------------------- module/wifimodule.go
WiFiTopics == <<"packet">>

\* The format strings of lines 46-49.
deauth == "Host %v is possibly performing a disassociation or deauthentication attack"
replay == "Host %v is possibly performing an ARP replay attack"

\* We only remember the last 10 WEPs (line 112).
WEPQueueLimit == 10

\* Mutant of Within: a frame exactly interval after the previous one counts.
WithinInclusive(cur, prev, iv) == prev # ZeroTime /\ cur - prev <= iv

\* cur.Sub(prev)*time.Nanosecond < time.Duration(interval): the difference
\* from the zero time is the largest duration, which no interval exceeds.
Within(cur, prev, iv) == prev # ZeroTime /\ cur - prev < iv

\* util.Queue: Push adds at the tail, Poll removes the head, and ForEach
\* visits the items from the head until the callback returns true.
QueuePush(q, item) == Append(q, item)

QueuePoll(q) == Tail(q)

QueueHas(q, item) == \E i \in 1..Len(q) : q[i] = item

\* The 802.11 part of a packet: whether it has a Dot11 layer, the type and
\* the WEP flag DecodeFromBytes reads from that layer's payload, whether the
\* packet has a Dot11WEP layer and that layer's contents, and Address1.
Dot11(type, wep, wepLayer, contents) ==
    [present |-> TRUE, type |-> type, wep |-> wep, wepLayer |-> wepLayer,
     contents |-> contents, address1 |-> MacA]

\* What a call of WiFiModule.Receive leaves: how it ended, its verdict, the
\* publications made, and the module's fields.
WiFiOutcome(out, pubs, deauthTime, wepTime, queue) ==
    [out |-> out, ret |-> (out = "return"), published |-> pubs,
     prevDeauthTime |-> deauthTime, prevWEPTime |-> wepTime, weps |-> queue]

\* Mutant of DeauthResult: the time is kept only when a notice is published.
DeauthResultOnNotice(iv, deauthTime, wepTime, queue, d, cur) ==
    WiFiOutcome("return",
                IF Within(cur, deauthTime, iv)
                THEN PublishLog("notice", Sprintf(deauth, <<d.address1>>))
                ELSE <<>>,
                IF Within(cur, deauthTime, iv) THEN cur ELSE deauthTime,
                wepTime, queue)

\* WiFiModule.deauth
DeauthResult(iv, deauthTime, wepTime, queue, d, cur) ==
    WiFiOutcome("return",
                IF Within(cur, deauthTime, iv)
                THEN PublishLog("notice", Sprintf(deauth, <<d.address1>>))
                ELSE <<>>,
                cur, wepTime, queue)

\* Mutant of Remember: nothing is polled before the push.
RememberAll(queue, contents) == QueuePush(queue, contents)

\* Lines 112-115.
Remember(queue, contents) ==
    QueuePush(IF Len(queue) = WEPQueueLimit THEN QueuePoll(queue) ELSE queue,
              contents)

\* WiFiModule.arpReplay
ArpReplayResult(iv, deauthTime, wepTime, queue, d, cur) ==
    WiFiOutcome("return",
                IF Within(cur, wepTime, iv) /\ QueueHas(queue, d.contents)
                THEN PublishLog("notice", Sprintf(replay, <<d.address1>>))
                ELSE <<>>,
                deauthTime, cur, Remember(queue, d.contents))

\* Lines 69-79.
WiFiSwitch(iv, deauthTime, wepTime, queue, d, cur) ==
    IF d.type \in {"disassociation", "deauthentication"}
    THEN DeauthResult(iv, deauthTime, wepTime, queue, d, cur)
    ELSE IF d.type = "data" /\ d.wep
    THEN IF ~d.wepLayer
         THEN WiFiOutcome("panic", <<>>, deauthTime, wepTime, queue)
         ELSE ArpReplayResult(iv, deauthTime, wepTime, queue, d, cur)
    ELSE WiFiOutcome("return", <<>>, deauthTime, wepTime, queue)

\* WiFiModule.Receive at time cur.
WiFiReceiveResult(iv, deauthTime, wepTime, queue, args, cur) ==
    IF Len(args) = 0 THEN WiFiOutcome("panic", <<>>, deauthTime, wepTime, queue)
    ELSE IF args[1].type # "packet" \/ ~args[1].pkt.dot11.present
    THEN WiFiOutcome("return", <<>>, deauthTime, wepTime, queue)
    ELSE WiFiSwitch(iv, deauthTime, wepTime, queue, args[1].pkt.dot11, cur)

\* ------------------------------------------------- handler inputs
\* Two WEP ciphertexts.
WepA == <<1, 2, 3>>
WepB == <<1, 2, 4>>

\* Packets with a Dot11 layer: management and other frames, data frames
\* with and without the WEP flag and the Dot11WEP layer; and one without.
WiFiPackets ==
    { Packet(FALSE, <<>>, Dot11(t, FALSE, FALSE, <<>>)) :
        t \in {"disassociation", "deauthentication", "other", "data"} }
    \cup { Packet(FALSE, <<>>, Dot11("data", TRUE, TRUE, c)) : c \in {WepA, WepB} }
    \cup { Packet(FALSE, <<>>, Dot11("data", TRUE, FALSE, <<>>)),
           Packet(FALSE, <<>>, Dot11("data", FALSE, TRUE, WepA)),
           NoPacket }

\* Values a publisher can pass: categories, other strings, a message, a
\* number and a packet.
GoValues ==
    { GoString(Text("notice")), GoString(Text("error")), GoString(Text("warning")),
      GoString(Text("")), GoString(Sprintf(replay, <<MacA>>)), GoInt,
      GoPacket(NoPacket) }

\* Argument lists of at most MaxArgs values.
ArgLists == UNION { [1..n -> GoValues] : n \in 0..MaxArgs }

\* Argument lists for the WiFi module: one packet, alone or followed by
\* another value, no argument, and one argument that is no packet.
WiFiArgLists ==
    { <<GoPacket(p)>> : p \in WiFiPackets }
    \cup { <<>>, <<GoInt>>, <<GoString(Text("notice"))>>, <<GoPacket(NoPacket), GoInt>> }

\* Argument lists for the Log module next to the WiFi module: what the WiFi
\* module publishes, and lists of a wrong length or with wrong types.
LogArgSamples ==
    { <<>>,
      <<GoString(Sprintf(replay, <<MacA>>))>>,
      <<GoString(Text("notice")), GoString(Sprintf(replay, <<MacA>>))>>,
      <<GoString(Text("error")), GoString(Sprintf(deauth, <<MacA>>))>>,
      <<GoString(Text("warning")), GoString(Sprintf(deauth, <<MacA>>))>>,
      <<GoInt, GoString(Sprintf(deauth, <<MacA>>))>>,
      <<GoString(Text("notice")), GoPacket(NoPacket)>>,
      <<GoString(Text("notice")), GoString(Sprintf(replay, <<MacA>>)), GoInt>> }

\* ------------------------------------------ the reporting handlers on their own
\* main's list of modules with the WiFi module in it (main.go, line 102).
WiFiMainModules ==
    << [name |-> "DoSModule", topics |-> DoSTopics],
       [name |-> "LogModule", topics |-> LogTopics],
       [name |-> "WiFiModule", topics |-> WiFiTopics] >>

InitReport ==
    /\ subscriptions = SubscribeAll(NewHub, WiFiMainModules, 1)
    /\ subscribeLog = <<"DoSModule", "LogModule", "WiFiModule">>
    /\ hubLog = NoPublish
    /\ InitPipeline
    /\ threshold = 0
    /\ InitNoDNS
    /\ config = NoConfig
    /\ initCopy = {}
    /\ validBindings = {}
    /\ seen = <<>>
    /\ interval \in 1..MaxInterval
    /\ now = 0
    /\ prevDeauthTime = ZeroTime
    /\ prevWEPTime = ZeroTime
    /\ weps = <<>>
    /\ received = <<>>
    /\ InitNoBloom
    /\ InitNoCount
    /\ last = NoCall

\* LogModule.Receive(args)
LogReceiveCall(args) ==
    /\ ~crashed
    /\ last' = [fn |-> "LogModule.Receive", args |-> args, out |-> "return",
                ret |-> LogReceive(args).ret, published |-> <<>>,
                lines |-> LogReceive(args).lines]
    /\ UNCHANGED <<hubVars, dosVars, driverVars, taskVars, crashed, dnsVars>>
    /\ UNCHANGED <<arpVars, wifiVars, bloomVars, countVars>>

\* The frame a call of WiFiModule.Receive that ended as r handed to deauth
\* or to arpReplay, if it did: its branch, its WEP contents and its time.
Arrival(args, cur, r) ==
    IF r.out # "return" \/ args[1].type # "packet" \/ ~args[1].pkt.dot11.present
    THEN <<>>
    ELSE IF args[1].pkt.dot11.type \in {"disassociation", "deauthentication"}
    THEN << [branch |-> "deauth", contents |-> <<>>, at |-> cur] >>
    ELSE IF args[1].pkt.dot11.type = "data" /\ args[1].pkt.dot11.wep
    THEN << [branch |-> "wep", contents |-> args[1].pkt.dot11.contents, at |-> cur] >>
    ELSE <<>>

\* What WiFiModule.Receive(args) does to the state when time.Now() returns
\* cur and the call ends as r.
WiFiReceived(args, cur, r) ==
    /\ last' = [fn |-> "WiFiModule.Receive", args |-> args, out |-> r.out,
                ret |-> r.ret, published |-> r.published,
                lines |-> RenderAll(subscriptions, r.published, 1)]
    /\ now' = cur
    /\ prevDeauthTime' = r.prevDeauthTime
    /\ prevWEPTime' = r.prevWEPTime
    /\ weps' = r.weps
    /\ received' = received \o Arrival(args, cur, r)
    /\ crashed' = (r.out = "panic")

\* WiFiModule.Receive(args), the clock having advanced to cur.
WiFiReceiveCall(args, cur) ==
    /\ ~crashed
    /\ WiFiReceived(args, cur,
                    WiFiReceiveResult(interval, prevDeauthTime, prevWEPTime, weps,
                                      args, cur))
    /\ UNCHANGED <<hubVars, dosVars, driverVars, taskVars, dnsVars>>
    /\ UNCHANGED <<arpVars, bloomVars, countVars, interval>>

NextLog == \E args \in ArgLists : LogReceiveCall(args)

SpecLog == InitReport /\ [][NextLog]_vars

NextReport ==
    \/ \E args \in LogArgSamples : LogReceiveCall(args)
    \/ \E args \in WiFiArgLists : \E cur \in (now + 1)..MaxClock :
          WiFiReceiveCall(args, cur)

SpecReport == InitReport /\ [][NextReport]_vars

\* ------------------------------------------ the 802.11 module on its own
\* An ARP request is 28 bytes long, plus the 8 bytes WEP adds to it
\* (wifimodule.go, lines 78-79).
ARPRequestLength == 28
WEPOverhead == 8

\* Two WEP ciphertexts of the length of an encrypted ARP request.
Wep36A == [i \in 1..(ARPRequestLength + WEPOverhead) |-> 1]
Wep36B == [i \in 1..(ARPRequestLength + WEPOverhead) |-> 2]

\* A data frame with the WEP flag and a Dot11WEP layer of the given contents.
WEPFrame(c) == Packet(FALSE, <<>>, Dot11("data", TRUE, TRUE, c))

\* A management frame of the given subtype.
MgmtFrame(t) == Packet(FALSE, <<>>, Dot11(t, FALSE, FALSE, <<>>))

\* The frames of the timing scenarios: encrypted ARP requests, a WEP frame
\* of another length, and the two management frames the module looks for.
WiFiFrames ==
    { WEPFrame(c) : c \in {Wep36A, Wep36B, WepA} }
    \cup { MgmtFrame(t) : t \in {"disassociation", "deauthentication"} }

\* hub.Publish("packet", f) reaches WiFiModule.Receive at any later time.
NextWiFi ==
    \E f \in WiFiFrames : \E cur \in (now + 1)..MaxTime :
        WiFiReceiveCall(<<GoPacket(f)>>, cur)

SpecWiFi == InitReport /\ [][NextWiFi]_vars

\* A WEP data frame with contents c arrives one tick after the last frame.
WEPArrival(c) ==
    /\ Len(received) < MaxWEPFrames
    /\ WiFiReceiveCall(<<GoPacket(WEPFrame(c))>>, now + 1)

NextWEPQueue == \E c \in {Wep36A, Wep36B} : WEPArrival(c)

SpecWEPQueue == InitReport /\ [][NextWEPQueue]_vars

\* ------------------------------------------ DoSModule.sendReset on its own
\* tcp.Seq + 1 on a uint32 kept as its high and low 16-bit halves (line 138).
SeqPlusOne(seq) ==
    IF seq[2] = 65535 THEN <<(seq[1] + 1) % 65536, 0>> ELSE <<seq[1], seq[2] + 1>>

\* Mutant of SwapAddresses: the header is sent as it was decoded.
KeepAddresses(ip) == ip

\* Lines 131-133: the addresses of the decoded IPv4 header change places.
SwapAddresses(ip) == [ip EXCEPT !.SrcIP = ip.DstIP, !.DstIP = ip.SrcIP]

\* The layers.TCP of lines 135-142; the fields it does not name are zero.
ResetSegment(tcp) ==
    [SrcPort |-> tcp.SrcPort, DstPort |-> tcp.DstPort, Seq |-> SeqPlusOne(tcp.Seq),
     Ack |-> tcp.Ack, SYN |-> FALSE, ACK |-> FALSE, RST |-> TRUE,
     Window |-> tcp.Window]

\* DoSModule.sendReset: what it hands to m.send.
sendReset(ip, tcp) == [ip |-> SwapAddresses(ip), tcp |-> ResetSegment(tcp)]

\* uint32 values at and around the two carries.
Seqs == { <<0, 0>>, <<0, 65535>>, <<1, 2>>, <<65535, 65534>>, <<65535, 65535>> }

\* The IPv4 and TCP headers of SYN-only segments.
IPHeaders ==
    { [SrcIP |-> s, DstIP |-> d] :
        s \in SrcIPs \cup {"10.0.0.9"}, d \in SrcIPs \cup {"10.0.0.9"} }

Syns ==
    { [SrcPort |-> 40000, DstPort |-> 80, Seq |-> s, Ack |-> a, SYN |-> TRUE,
       ACK |-> FALSE, RST |-> FALSE, Window |-> w] :
        s \in Seqs, a \in {<<0, 0>>, <<65535, 65535>>}, w \in {0, 512, 65535} }

\* m.sendReset(ip, tcp)
SendResetCall(ip, tcp) ==
    /\ last' = [fn |-> "sendReset", ip |-> ip, tcp |-> tcp, sent |-> sendReset(ip, tcp)]
    /\ UNCHANGED <<hubVars, dosVars, driverVars, taskVars, crashed, dnsVars>>
    /\ UNCHANGED <<arpVars, wifiVars, bloomVars, countVars>>

NextReset == \E ip \in IPHeaders : \E tcp \in Syns : SendResetCall(ip, tcp)

SpecReset == InitARPDecoder /\ [][NextReset]_vars

\* ---------------------------------------------------------------- bloom.go
\* hash: the FNV-1a sum of the words of TestBloomFilter, a uint64 written as
\* its eight bytes from the most significant one.
hash(item) ==
    CASE item = "ever" -> <<213, 154, 253, 96, 132, 26, 247, 117>>
      [] item = "rain" -> <<109, 189, 253, 31, 209, 245, 4, 83>>
      [] item = "have" -> <<46, 71, 197, 204, 116, 35, 14, 219>>
      [] item = "seen" -> <<44, 250, 219, 24, 211, 236, 209, 42>>
      [] item = "you" -> <<181, 97, 124, 25, 121, 158, 161, 92>>

Items == {"ever", "rain", "have", "seen", "you"}

\* uint(hash) * i in 64 bits: bytes 1..k of the product, carry being what
\* the bytes after k passed on; the carry out of byte 1 is lost.
RECURSIVE TimesFrom(_, _, _, _)
TimesFrom(h, i, k, carry) ==
    IF k = 0 THEN <<>>
    ELSE Append(TimesFrom(h, i, k - 1, (h[k] * i + carry) \div 256),
                (h[k] * i + carry) % 256)

Times(h, i) == TimesFrom(h, i, Len(h), 0)

\* h % size, byte by byte from byte k on, r being the remainder so far.
RECURSIVE ModFrom(_, _, _, _)
ModFrom(h, k, size, r) ==
    IF k > Len(h) THEN r ELSE ModFrom(h, k + 1, size, (r * 256 + h[k]) % size)

\* BloomFilter.index
index(size, i, h) == ModFrom(Times(h, i), 1, size, 0)

\* NewBloomFilter
NewBloomFilter(size, hashes) == [size |-> size, hashes |-> hashes, set |-> {}]

\* BloomFilter.CanContain
CanContain(f, item) ==
    \A i \in 0..(f.hashes - 1) : index(f.size, i, hash(item)) \in f.set

\* Mutant of Add: the loop starts at 1.
AddFromOne(f, item) ==
    [f EXCEPT !.set = @ \cup { index(f.size, i, hash(item)) : i \in 1..(f.hashes - 1) }]

\* BloomFilter.Add
Add(f, item) ==
    [f EXCEPT !.set = @ \cup { index(f.size, i, hash(item)) : i \in 0..(f.hashes - 1) }]

\* The filter of TestBloomFilter, NewBloomFilter(uint(^uint16(0)), 30), and
\* small filters in which the bits of different items meet.
TestSize == 65535
TestHashes == 30

BloomSizes == 1..MaxSize \cup {TestSize}
BloomHashes == 1..MaxHashes \cup {TestHashes}

InitBloom ==
    /\ InitModulesIdle
    /\ config = NoConfig
    /\ initCopy = {}
    /\ validBindings = {}
    /\ seen = <<>>
    /\ interval = 0
    /\ now = 0
    /\ prevDeauthTime = ZeroTime
    /\ prevWEPTime = ZeroTime
    /\ weps = <<>>
    /\ received = <<>>
    /\ \E size \in BloomSizes : \E hashes \in BloomHashes :
          bloom = NewBloomFilter(size, hashes)
    /\ added = {}
    /\ InitNoCount
    /\ last = NoCall

\* bloom.Add(item)
BloomAdd(item) ==
    /\ bloom' = Add(bloom, item)
    /\ added' = added \cup {item}
    /\ last' = [fn |-> "Add", item |-> item, before |-> bloom.set,
                after |-> Add(bloom, item).set]
    /\ UNCHANGED <<hubVars, dosVars, driverVars, taskVars, crashed, dnsVars>>
    /\ UNCHANGED <<arpVars, wifiVars, countVars>>

\* bloom.CanContain(item)
BloomCanContain(item) ==
    /\ last' = [fn |-> "CanContain", item |-> item, ret |-> CanContain(bloom, item)]
    /\ UNCHANGED <<hubVars, dosVars, driverVars, taskVars, crashed, dnsVars>>
    /\ UNCHANGED <<arpVars, wifiVars, bloomVars, countVars>>

NextBloom ==
    \/ \E item \in Items : BloomAdd(item)
    \/ \E item \in Items : BloomCanContain(item)

SpecBloom == InitBloom /\ [][NextBloom]_vars

\* ================================================================ claims

\* C1: Publish returns true iff every handler it invoked returned true
\* (true when none was invoked), and no handler is invoked after one that
\* returned false.
C1_PublishVeto ==
    LET n == Len(hubLog.invoked)
    IN  /\ hubLog.ret = (\A i \in 1..n : hubLog.answers[i])
        /\ \A i \in 1..(n - 1) : hubLog.answers[i]

\* C1 witness: a Publish vetoed by a handler that is not the last one
\* registered under the topic.
C1_Witness ==
    /\ ~hubLog.ret
    /\ Len(hubLog.invoked) >= 1
    /\ Len(hubLog.invoked) < Len(hubLog.answers)

\* The subscribers that declared topic among the first k subscribed, in the
\* order of their Subscribe calls.
DeclaredOrder(topic, k) ==
    SelectSeq(SubSeq(subscribeLog, 1, k),
              LAMBDA n : \E i \in 1..Len(TopicsOf(n)) : TopicsOf(n)[i] = topic)

\* C2: Publish invokes the subscribers that declared the topic in the order
\* of their Subscribe calls (all of them when no handler vetoes, those up to
\* the vetoing one otherwise) and no other subscriber.
C2_DispatchOrder ==
    LET want == DeclaredOrder(hubLog.topic, hubLog.at)
        n == Len(hubLog.invoked)
    IN  /\ n <= Len(want)
        /\ hubLog.invoked = SubSeq(want, 1, n)
        /\ hubLog.ret => n = Len(want)

\* C2 witness: a Publish that invoked two different subscribers of its
\* topic while a subscriber of the other topic alone was registered too.
C2_Witness ==
    /\ Len(hubLog.invoked) >= 2
    /\ hubLog.invoked[1] # hubLog.invoked[2]
    /\ hubLog.at > Len(DeclaredOrder(hubLog.topic, hubLog.at))


\* ------------------------------------------------ pipeline vocabulary
\* hub.Publish has returned to goroutine t: ok[t] is its value, which is the
\* DoS module's verdict, and rst[t] tells whether sendReset was called.
Returned(t) == pc[t] \in {"ret", "write", "done"}

\* Goroutine t has counted its SYN in m.syns.
Counted(t) == pc[t] = "check" \/ (Returned(t) /\ IsSynOnly(FrameOf(t)))

\* No reset has taken a counted SYN out of m.syns: every SYN counted so far
\* falls in the current interval.
SameInterval == syns = Cardinality({t \in Tasks : Counted(t)})

\* Number of SYN-only frames among the first i frames of the capture.
SynRank(i) == Cardinality({j \in 1..i : IsSynOnly(capture[j])})

\* C3: a SYN from a source whose ACK-only frame had been processed when the
\* SYN entered Receive gets verdict true and no RST.
C3_EstablishedNeverReset ==
    \A t \in Tasks :
        (Returned(t) /\ IsSynOnly(FrameOf(t)) /\ est[t]) => (ok[t] /\ ~rst[t])

\* C4: within one interval, a SYN-only frame that is among the first
\* threshold SYN-only frames handed to the pipeline is forwarded without RST
\* (stated for the frames that a single goroutine published).
C4_FirstSynsForwarded ==
    \A t \in Tasks :
        (/\ Returned(t)
         /\ IsSynOnly(FrameOf(t))
         /\ \A u \in Tasks \ {t} : pub[u] # pub[t]
         /\ SameInterval
         /\ SynRank(pub[t]) <= threshold) => (ok[t] /\ ~rst[t])

\* C5: whenever the ticker has fired, syns becomes 0 (the reset happens and
\* stores exactly 0), and syns changes in no other way than by that reset or
\* by the count of one SYN.
C5_TickerResets ==
    /\ (tickerPc = "lock" /\ ~crashed) ~> (syns = 0 \/ crashed)
    /\ [][syns' # syns =>
            \/ syns' = 0
            \/ syns' = syns + 1 /\ \E t \in Tasks : pc[t] = "count" /\ pc'[t] = "check"]_vars

\* C5 witness: SYNs were counted and the counter is 0 again.
C5_Witness == syns = 0 /\ \E t \in Tasks : Counted(t)

\* C6: a false verdict is given only to a SYN-only IPv4/TCP frame, and only
\* when its source is not marked established and syns exceeds the threshold.
C6_VetoOnlyRateLimited ==
    /\ [](\A t \in Tasks : (Returned(t) /\ ~ok[t]) => IsSynOnly(FrameOf(t)))
    /\ [][\A t \in Tasks :
            (pc[t] = "check" /\ pc'[t] = "ret" /\ ~ok'[t]) =>
                (~cons[FrameOf(t).src] /\ syns > threshold)]_vars

\* C7: sendReset is invoked for a frame exactly when the verdict is false.
C7_ResetIffVeto ==
    \A t \in Tasks :
        /\ Returned(t) => (rst[t] <=> ~ok[t])
        /\ rst[t] => Returned(t)

\* C7 witness: one SYN was vetoed with a RST while another SYN, counted in
\* the same interval, was forwarded.
C7_Witness ==
    \E t, u \in Tasks :
        /\ Returned(t) /\ ~ok[t] /\ rst[t]
        /\ Returned(u) /\ IsSynOnly(FrameOf(u)) /\ ok[u] /\ ~rst[u]

\* C8: a goroutine about to read or write m.syns or m.cons holds the mutex.
C8_AccessUnderMutex ==
    \A t \in Tasks : pc[t] \in {"ackCS", "check"} => mutex = t

\* C9: a goroutine forwards exactly the frame it published when Publish
\* returned true and nothing otherwise, and no frame that Publish vetoed is
\* ever written to the handle.
C9_ForwardIffPublishTrue ==
    /\ \A t \in Tasks :
          pc[t] = "done" => fwd[t] = (IF ok[t] THEN pub[t] ELSE 0)
    /\ \A t, u \in Tasks :
          (pc[t] = "done" /\ fwd[t] # 0 /\ Returned(u) /\ ~ok[u]) => fwd[t] # pub[u]

\* C10: main has returned from Wait (and closed the handle) only when every
\* goroutine it started has finished its publish and forward or drop.
C10_WaitsForTasks ==
    (driverPc = "done" \/ handleClosed) =>
        \A t \in Tasks : t <= Len(capture) => pc[t] = "done"

\* C10 witness: main finished after at least two goroutines, one of which
\* forwarded.
C10_Witness ==
    /\ driverPc = "done"
    /\ handleClosed
    /\ Len(capture) >= 2
    /\ \E t \in Tasks : fwd[t] # 0

\* C11: no two goroutines are inside handle.WritePacketData at the same
\* time.
C11_WritesSerialised ==
    \A t, u \in Tasks : (pc[t] = "write" /\ pc[u] = "write") => t = u

\* C12: the bytes a goroutine wrote for a frame with an IPv4 layer carry the
\* forward IP as their destination address.
C12_ForwardedDstRewritten ==
    \A t \in Tasks :
        (pc[t] = "done" /\ fwd[t] # 0 /\ capture[fwd[t]].ipv4) => wire[t] = FwdIP

\* ------------------------------------------------------ dns vocabulary
\* The first byte at start is a compression pointer.
PointerAtStart == start < Len(data) /\ IsPointer(At(data, start))

\* No window of LabelLimit + 1 bytes of the name is free of periods.
LabelsWithin(name, limit) ==
    \A i \in 1..(Len(name) - limit) : \E j \in i..(i + limit) : name[j] = Period

\* C13: decodeDomainName returns on every input and start offset, never
\* recursing without bound, and a pointer met first whose target is not
\* inside the data gives "Offset too large".
C13_NameDecodingTerminates ==
    res.fn = "name" =>
        /\ res.r.out # "overflow"
        /\ (PointerAtStart /\ start + 2 <= Len(data)
               /\ PointerTarget(data, start) >= Len(data))
              => (res.r.out = "error" /\ res.r.err = "Offset too large")

\* C16: a name returned by decodeDomainName has at most 255 octets and
\* labels of at most 63 octets.
C16_NameWithinLimits ==
    (res.fn = "name" /\ res.r.out = "ok") =>
        /\ Len(res.r.name) <= NameLimit
        /\ LabelsWithin(res.r.name, LabelLimit)

\* C17: a label of L octets is accepted, its bytes unchanged and the cursor
\* after it, when L <= 63 and it ends inside the data; "Label length too
\* long" is returned exactly when L > 63 or it runs past the end.
C17_LabelAccepted ==
    res.fn = "label" =>
        LET L == At(data, start)
            fits == L <= 63 /\ start + 1 + L <= Len(data)
        IN  /\ fits => /\ res.r.out = "ok"
                       /\ res.r.bytes = Slice(data, start + 1, start + 1 + L)
                       /\ res.r.next = start + 1 + L
            /\ (res.r.out = "error" /\ res.r.err = "Label length too long") <=> ~fits

\* C18: a name decoded through a pointer met at p is the name decoded at
\* the pointer's target with cursor p + 2, whatever cursor the decoding at
\* the target returned; a pointer with less than two bytes left gives "Name
\* pointer incomplete".
C18_PointerResult ==
    res.fn = "name" =>
        /\ (res.r.out = "ok" /\ res.r.ptr >= 0) =>
              LET target == decodeDomainName(data, PointerTarget(data, res.r.ptr))
              IN  /\ target.out = "ok"
                  /\ res.r.name = target.name
                  /\ res.r.offset = res.r.ptr + 2
        /\ (PointerAtStart /\ start + 2 > Len(data)) =>
              (res.r.out = "error" /\ res.r.err = "Name pointer incomplete")
        /\ (PointerAtStart /\ start + 2 <= Len(data)
               /\ decodeDomainName(data, PointerTarget(data, start)).out = "ok") =>
              (res.r.out = "ok" /\ res.r.ptr = start)

\* C18 witness: a pointer met after a label, to a name that ends before the
\* pointer's own position.
C18_Witness ==
    /\ res.fn = "name"
    /\ res.r.out = "ok"
    /\ res.r.ptr > start
    /\ Len(res.r.name) >= 1
    /\ decodeDomainName(data, PointerTarget(data, res.r.ptr)).offset # res.r.ptr + 2

\* C14: DecodeDNS returns a message or an error for every byte string; it
\* does not index or slice outside the input.
C14_DecodeTotal ==
    res.fn = "message" => res.r.out \in {"ok", "error"}

\* C15: after a well-formed message of N bytes has been decoded, the cursor
\* is N.
C15_CursorAtEnd ==
    (res.fn = "message" /\ valid /\ res.r.out = "ok") => res.r.cursor = Len(data)

\* C15 witness: a well-formed message with two questions and a resource in
\* each of two sections, names compressed, decoded without error.
C15_Witness ==
    /\ res.fn = "message"
    /\ valid
    /\ res.r.out = "ok"
    /\ Len(res.r.dns.questions) = 2
    /\ Len(res.r.dns.authorities) = 1
    /\ Len(res.r.dns.additionals) = 1
    /\ res.r.dns.additionals[1].type = DNSTypeSOA

\* C19: a resource decoded without error leaves the cursor at the start of
\* its RDATA plus RDLENGTH, whatever its type and however many bytes the
\* decoding of the RDATA took; when RDATA would end after the data the error
\* is "Resource length is longer than the message length".
C19_ResourceCursor ==
    res.fn = "resource" =>
        LET n == decodeDomainName(data, start)
            fixed == n.out = "ok" /\ n.offset + 10 <= Len(data)
            rdstart == n.offset + 10
            rdlength == U16(data, n.offset + 8)
        IN  /\ res.r.out = "ok" => (fixed /\ res.r.offset = rdstart + rdlength)
            /\ (fixed /\ rdstart + rdlength > Len(data)) =>
                  /\ res.r.out = "error"
                  /\ res.r.err = "Resource length is longer than the message length"

\* C19 witness: a resource whose RDATA is a name shorter than RDLENGTH.
C19_Witness ==
    /\ res.fn = "resource"
    /\ res.r.out = "ok"
    /\ res.r.type \in {DNSTypeNS, DNSTypeSOA, DNSTypeMX}
    /\ res.r.used < res.r.offset

\* The offset at which item i + 1 of the message starts when the items
\* before it decode: the questions come first.
RECURSIVE CursorAfter(_, _)
CursorAfter(d, i) ==
    IF i = 0 THEN 12
    ELSE ItemDecode(d, IF i <= U16(d, 4) THEN "question" ELSE "resource",
                    CursorAfter(d, i - 1)).offset

\* C20: a decoder that returns an error returns nothing else: the empty
\* name and offset 0 from decodeDomainName, offset 0 from the question and
\* resource decoders, an empty message from DecodeDNS, whose error is the
\* error of the first item that failed to decode.
C20_FailurePolicy ==
    /\ (res.fn = "name" /\ res.r.out = "error") =>
          (res.r.name = <<>> /\ res.r.offset = 0)
    /\ (res.fn \in {"question", "resource"} /\ res.r.out = "error") =>
          res.r.offset = 0
    /\ (res.fn = "message" /\ res.r.out = "error") =>
          /\ res.r.dns = EmptyDNS
          /\ Len(data) >= 12 =>
                LET k == res.r.done + 1
                    kind == IF k <= U16(data, 4) THEN "question" ELSE "resource"
                    sub == ItemDecode(data, kind, CursorAfter(data, k - 1))
                IN  /\ \A i \in 1..(k - 1) :
                          ItemDecode(data,
                                     IF i <= U16(data, 4) THEN "question" ELSE "resource",
                                     CursorAfter(data, i - 1)).out = "ok"
                    /\ sub.out = "error"
                    /\ sub.err = res.r.err
                    /\ sub.offset = 0

\* C20 witness: the second item of a message fails to decode after the
\* first was decoded.
C20_Witness ==
    /\ res.fn = "message"
    /\ res.r.out = "error"
    /\ res.r.done >= 1
    /\ res.r.failedAt > 12

\* The last call was DecodeARP on a byte string of at least n bytes.
DecodedARP(n) == last.fn = "DecodeARP" /\ Len(last.data) >= n

Rejected(msg) ==
    last.r.out = "error" /\ last.r.err = msg /\ last.r.arp = EmptyARP

\* C21: DecodeARP returns the link-type error and an empty ARP for every
\* input whose 16-bit hardware type is not 1, else the protocol-type error
\* for every protocol type other than IPv4, ARP, IPv6, else the opcode error
\* for every opcode other than Request, Reply.
C21_RejectsUnsupported ==
    /\ DecodedARP(2) /\ WireHardwareType(last.data) # LinkTypeEthernet
         => Rejected("Link layer protocols other than Ethernet are not supported")
    /\ DecodedARP(4) /\ WireHardwareType(last.data) = LinkTypeEthernet
          /\ WireProtocolType(last.data)
                \notin {EtherTypeIPv4, EtherTypeARP, EtherTypeIPv6}
         => Rejected("Ethernet types other than IPv4, ARP and IPv6 are not supported")
    /\ DecodedARP(8) /\ WireHardwareType(last.data) = LinkTypeEthernet
          /\ WireProtocolType(last.data)
                \in {EtherTypeIPv4, EtherTypeARP, EtherTypeIPv6}
          /\ WireOpcode(last.data) \notin {ARPOpcodeRequest, ARPOpcodeReply}
         => Rejected("Opcode type should be 1 (REQUEST) or 2 (REPLY)")

\* The fields of an ARP value in wire order.
EncodeARP(a) ==
    ARPBytes(a.HAddress, a.PAddress, a.HLength, a.PLength, a.Opcode,
             a.SHAddress, a.SPAddress, a.THAddress, a.TPAddress)

\* An ARP message of a supported hardware type, protocol type and opcode
\* that is exactly as long as its length fields say.
WellFormedARP(d) ==
    /\ Len(d) >= 8
    /\ WireHardwareType(d) = LinkTypeEthernet
    /\ WireProtocolType(d) \in {EtherTypeIPv4, EtherTypeARP, EtherTypeIPv6}
    /\ WireOpcode(d) \in {ARPOpcodeRequest, ARPOpcodeReply}
    /\ Len(d) = 8 + 2 * (WireHLength(d) + WirePLength(d))

\* C22: DecodeARP of a well-formed ARP byte string returns an ARP whose
\* fields, written in wire order, are that byte string.
C22_ParseInverse ==
    DecodedARP(8) /\ WellFormedARP(last.data)
        => last.r.out = "ok" /\ EncodeARP(last.r.arp) = last.data

\* The i-th frame the ARP module received was decoded and analysed as a
\* reply / as a request.
AnalysedReply(i) ==
    seen[i].decoded = "ok" /\ seen[i].arp.Opcode = ARPOpcodeReply

AnalysedRequest(i) ==
    seen[i].decoded = "ok" /\ seen[i].arp.Opcode = ARPOpcodeRequest

\* Sender and target protocol address are equal and the target hardware
\* address is the broadcast address.
Gratuitous(a) == a.SPAddress = a.TPAddress /\ a.THAddress = BroadcastAddress

\* The i-th call published exactly one event on topic log, with the category
\* and a message of the format.
Logged(i, cat, format) ==
    /\ Len(seen[i].published) = 1
    /\ seen[i].published[1].topic = "log"
    /\ Len(seen[i].published[1].args) = 2
    /\ seen[i].published[1].args[1] = GoString(Text(cat))
    /\ seen[i].published[1].args[2].type = "string"
    /\ seen[i].published[1].args[2].str.format = format

\* C23: every reply whose sender hardware address is the broadcast address
\* makes the ARP module publish the error of binding to the broadcast
\* address on topic log, naming the sender's protocol address, whatever else
\* holds of the reply; Receive returns and vetoes nothing.
C23_BroadcastBindingIsError ==
    \A i \in 1..Len(seen) :
       AnalysedReply(i) /\ seen[i].arp.SHAddress = BroadcastAddress
           => /\ Logged(i, "error", bindEthernet)
              /\ seen[i].published[1].args[2].str.args = <<seen[i].arp.SPAddress>>
              /\ seen[i].rendered
                    = <<[prefix |-> "ERROR: ",
                         msg |-> Sprintf(bindEthernet, <<seen[i].arp.SPAddress>>)]>>
              /\ seen[i].out = "return"

\* A gratuitous reply and a broadcast reply, both binding to the broadcast
\* address, have been reported as errors.
C23_Witness ==
    /\ Len(seen) = 2
    /\ \A i \in 1..2 :
          /\ AnalysedReply(i)
          /\ seen[i].arp.SHAddress = BroadcastAddress
          /\ Logged(i, "error", bindEthernet)
    /\ Gratuitous(seen[1].arp)
    /\ seen[2].arp.TPAddress = BroadcastAddress

\* The requests pending before the i-th frame, oldest first, as the
\* (SPAddress, TPAddress) of each: a non-gratuitous request is added when
\* seen, and a non-gratuitous reply removes the first request it matches.
Matches(req, a) == req[1] = a.TPAddress /\ req[2] = a.SPAddress

RemoveFirst(reqs, a) ==
    IF \E k \in 1..Len(reqs) : Matches(reqs[k], a)
    THEN LET k == CHOOSE j \in 1..Len(reqs) :
                     /\ Matches(reqs[j], a)
                     /\ \A h \in 1..(j - 1) : ~Matches(reqs[h], a)
         IN  SubSeq(reqs, 1, k - 1) \o SubSeq(reqs, k + 1, Len(reqs))
    ELSE reqs

RECURSIVE PendingBefore(_)
PendingBefore(i) ==
    IF i <= 1 THEN <<>>
    ELSE IF AnalysedRequest(i - 1) /\ ~Gratuitous(seen[i - 1].arp)
    THEN Append(PendingBefore(i - 1),
                <<seen[i - 1].arp.SPAddress, seen[i - 1].arp.TPAddress>>)
    ELSE IF AnalysedReply(i - 1) /\ ~Gratuitous(seen[i - 1].arp)
    THEN RemoveFirst(PendingBefore(i - 1), seen[i - 1].arp)
    ELSE PendingBefore(i - 1)

\* The i-th call published a notice that is none of the notices of the
\* other conditions.
SpuriousNotice(i) ==
    \E k \in 1..Len(seen[i].published) :
       /\ seen[i].published[k].topic = "log"
       /\ Len(seen[i].published[k].args) = 2
       /\ seen[i].published[k].args[1] = GoString(Text("notice"))
       /\ seen[i].published[k].args[2].str.format
             \notin {unicastRequest, gratuitous, bindEthernet, broadcastReply,
                     invalidBinding}

\* C24: a non-gratuitous reply that matches none of the requests pending
\* when it arrives is reported with a notice of a spurious reply.
C24_SpuriousReplyNoticed ==
    \A i \in 1..Len(seen) :
       /\ AnalysedReply(i)
       /\ ~Gratuitous(seen[i].arp)
       /\ \A k \in 1..Len(PendingBefore(i)) :
             ~Matches(PendingBefore(i)[k], seen[i].arp)
       => SpuriousNotice(i)

\* The reply reached the check of its binding against the allowlist.
ReachedBindingCheck(i) ==
    /\ AnalysedReply(i)
    /\ seen[i].arp.SHAddress # BroadcastAddress
    /\ seen[i].arp.TPAddress # BroadcastAddress
    /\ ~Gratuitous(seen[i].arp)

\* The configuration lists the hardware address among the MAC addresses of
\* the protocol address.
Configured(cfg, spa, sha) ==
    \E e \in cfg.bindings :
       /\ Len(spa) = 4
       /\ e.ip = DottedString(spa)
       /\ \E j \in 1..Len(e.macs) : ParseMAC(e.macs[j]) = [ok |-> TRUE, mac |-> sha]

\* C25: a reply that reaches the binding check gets no invalid-binding
\* notice if and only if the configuration lists its SHAddress among the MAC
\* addresses of its SPAddress.
C25_ValidBindingIffConfigured ==
    \A i \in 1..Len(seen) :
       ReachedBindingCheck(i)
           => (~Logged(i, "notice", invalidBinding)
                  <=> Configured(config, seen[i].arp.SPAddress, seen[i].arp.SHAddress))

C27_DefaultsAcceptAll ==
    ~config.given
        => \A i \in 1..Len(seen) : ~Logged(i, "notice", invalidBinding)

\* C28: when DecodeARP returns an error for a frame, the ARP module
\* publishes it on topic log with category error, the Log module prints it
\* as an error, and Receive returns.
C28_DecodeErrorLogged ==
    \A i \in 1..Len(seen) :
       seen[i].decoded = "error"
           => /\ Logged(i, "error", seen[i].published[1].args[2].str.format)
              /\ Len(seen[i].rendered) = 1
              /\ seen[i].rendered[1].prefix = "ERROR: "
              /\ seen[i].out = "return"

\* The last call was a call of the handler on its own.
Called(fn) == last.fn = fn

\* C29: LogModule.Receive and WiFiModule.Receive return true for every
\* argument list.
C29_ReportersNeverVeto ==
    Called("LogModule.Receive") \/ Called("WiFiModule.Receive")
        => last.out = "return" /\ last.ret = TRUE

\* C30: the Log module prints the message as a warning when the category is
\* missing, is not a string, or is a string other than notice and error,
\* and prints nothing only when the message is not a string.
C30_UnknownCategoryIsNotice ==
    /\ Called("LogModule.Receive") /\ Len(last.args) = 2
          /\ last.args[1] \notin {GoString(Text("notice")), GoString(Text("error"))}
          /\ last.args[2].type = "string"
         => last.lines = <<[prefix |-> "WARNING: ", msg |-> last.args[2].str]>>
    /\ Called("LogModule.Receive") /\ Len(last.args) = 1
          /\ last.args[1].type = "string"
         => last.lines = <<[prefix |-> "WARNING: ", msg |-> last.args[1].str]>>
    /\ Called("LogModule.Receive") /\ Len(last.args) = 2
          /\ last.args[2].type # "string"
         => last.lines = <<>>


\* ------------------------------------------------ 802.11 vocabulary
\* The contents of the WEP data frames received so far, in arrival order.
WEPContents(i) == received[i].contents

WEPPayloads ==
    [i \in 1..Len(SelectSeq(received, LAMBDA a : a.branch = "wep")) |->
        SelectSeq(received, LAMBDA a : a.branch = "wep")[i].contents]

\* The last n elements of s, all of s when it has fewer.
LastN(s, n) == IF Len(s) <= n THEN s ELSE SubSeq(s, Len(s) - n + 1, Len(s))

\* C31: after any sequence of WEP data frames the queue holds at most 10
\* payloads, and they are the payloads received last, in arrival order.
C31_QueueHoldsLastTen ==
    /\ Len(weps) <= 10
    /\ weps = LastN(WEPPayloads, 10)

\* C31 witness: twelve WEP frames have arrived, the first and the third
\* with different payloads, and the queue begins with the third.
C31_Witness ==
    /\ Len(received) = 12
    /\ WEPContents(1) # WEPContents(3)
    /\ weps[1] = WEPContents(3)

\* The WEP data frames received so far, in arrival order.
WEPArrivals == SelectSeq(received, LAMBDA a : a.branch = "wep")

\* The last call was WiFiModule.Receive for a frame of the branch.
Handled(branch) ==
    /\ Called("WiFiModule.Receive")
    /\ last.out = "return"
    /\ Len(received) >= 1
    /\ received[Len(received)].branch = branch
    /\ received[Len(received)].at = now

ReplayNotice == PublishLog("notice", Sprintf(replay, <<MacA>>))

\* The k-th WEP frame from the end has the contents of the one before it,
\* and arrived gap ticks after it.
SameAsBefore(k) ==
    WEPArrivals[Len(WEPArrivals) - k].contents
        = WEPArrivals[Len(WEPArrivals) - k - 1].contents

GapBefore(k) ==
    WEPArrivals[Len(WEPArrivals) - k].at - WEPArrivals[Len(WEPArrivals) - k - 1].at

\* The third of three identical WEP frames in a row, the second less than
\* interval after the first and the third at least interval after the second.
ThirdOfReplay ==
    /\ Handled("wep")
    /\ Len(WEPArrivals) >= 3
    /\ SameAsBefore(0) /\ SameAsBefore(1)
    /\ GapBefore(1) < interval
    /\ GapBefore(0) >= interval

\* C32: a WEP payload identical to the WEP payload before it and less than
\* interval after it emits one ARP-replay notice; an identical third at
\* least interval after the second emits none.
C32_ReplayScenario ==
    /\ (Handled("wep") /\ Len(WEPArrivals) >= 2 /\ SameAsBefore(0)
            /\ GapBefore(0) < interval)
           => last.published = ReplayNotice
    /\ ThirdOfReplay => last.published = <<>>

\* C32 witness: the third frame of the scenario has been handled.
C32_Witness == ThirdOfReplay /\ last.published = <<>>

\* The contents are as long as an encrypted ARP request: 28 + 8 bytes.
IsEncryptedARP(c) == Len(c) = 36

\* C33: a WEP data frame whose payload is not 36 bytes long emits no
\* notice, is not added to the queue of recent payloads and does not update
\* prevWEPTime.
C33_OnlyEncryptedARP ==
    /\ (Handled("wep") /\ ~IsEncryptedARP(received[Len(received)].contents))
           => last.published = <<>>
    /\ \A i \in 1..Len(weps) : IsEncryptedARP(weps[i])
    /\ \/ prevWEPTime = ZeroTime
       \/ \E i \in 1..Len(received) :
             /\ received[i].branch = "wep"
             /\ IsEncryptedARP(received[i].contents)
             /\ received[i].at = prevWEPTime

\* C34: a WEP frame emits an ARP-replay notice only if a WEP frame with the
\* same payload was received less than interval before it.
C34_NoticeOnlyForRecentTwin ==
    (Handled("wep") /\ last.published # <<>>)
        => \E i \in 1..(Len(received) - 1) :
              /\ received[i].branch = "wep"
              /\ received[i].contents = received[Len(received)].contents
              /\ now - received[i].at < interval

\* The disassociation and deauthentication frames received so far.
DeauthArrivals == SelectSeq(received, LAMBDA a : a.branch = "deauth")

\* The last such frame arrived less than interval after the one before it.
DeauthWithinInterval ==
    /\ Len(DeauthArrivals) >= 2
    /\ DeauthArrivals[Len(DeauthArrivals)].at
           - DeauthArrivals[Len(DeauthArrivals) - 1].at < interval

DeauthNotice == PublishLog("notice", Sprintf(deauth, <<MacA>>))

\* C35: a disassociation or deauthentication frame emits a notice iff it
\* arrives less than interval after the previous such frame, and
\* prevDeauthTime is the arrival time of the last such frame, noticed or not.
C35_DeauthFlood ==
    /\ Handled("deauth") =>
          last.published = IF DeauthWithinInterval THEN DeauthNotice ELSE <<>>
    /\ prevDeauthTime = IF DeauthArrivals = <<>> THEN ZeroTime
                        ELSE DeauthArrivals[Len(DeauthArrivals)].at

\* C35 witness: a third such frame got no notice, at least interval after
\* the second, which had come less than interval after the first.
C35_Witness ==
    /\ Handled("deauth")
    /\ Len(DeauthArrivals) = 3
    /\ DeauthArrivals[2].at - DeauthArrivals[1].at < interval
    /\ ~DeauthWithinInterval
    /\ last.published = <<>>
    /\ prevDeauthTime = now

\* C36: the RST sendReset builds for a SYN has the SYN's destination as its
\* IPv4 source and the SYN's source as its destination, Seq = (Seq + 1)
\* modulo 2^32, the SYN's Ack and window, and the RST flag.
C36_ResetFields ==
    Called("sendReset") =>
        /\ last.sent.ip.SrcIP = last.ip.DstIP
        /\ last.sent.ip.DstIP = last.ip.SrcIP
        /\ last.sent.tcp.Seq[2] = (last.tcp.Seq[2] + 1) % 65536
        /\ last.sent.tcp.Seq[1]
               = (last.tcp.Seq[1] + ((last.tcp.Seq[2] + 1) \div 65536)) % 65536
        /\ last.sent.tcp.Ack = last.tcp.Ack
        /\ last.sent.tcp.RST
        /\ last.sent.tcp.Window = last.tcp.Window

\* C36 witness: a RST for a SYN with the largest sequence number, between
\* two different hosts.
C36_Witness ==
    /\ Called("sendReset")
    /\ last.ip.SrcIP # last.ip.DstIP
    /\ last.tcp.Seq = <<65535, 65535>>
    /\ last.sent.tcp.Seq = <<0, 0>>
    /\ last.sent.ip.DstIP = last.ip.SrcIP

\* C37: CanContain returns true for every item that was added, Add clears
\* no bit, and CanContain on a filter without additions returns false.
C37_NoFalseNegatives ==
    /\ \A item \in added : CanContain(bloom, item)
    /\ (Called("CanContain") /\ last.item \in added) => last.ret
    /\ Called("Add") => last.before \subseteq last.after
    /\ (Called("CanContain") /\ added = {}) => ~last.ret

\* C37 witness: in the filter of the test, CanContain has returned true for
\* one of two items added while it is false for an item that was not.
C37_Witness ==
    /\ Called("CanContain")
    /\ bloom.size = TestSize
    /\ Cardinality(added) >= 2
    /\ last.item \in added
    /\ last.ret
    /\ \E item \in Items \ added : ~CanContain(bloom, item)

\* C38: the goroutine started for the t-th frame read publishes that frame
\* (so every frame is published once and none twice), and what a goroutine
\* forwards is the frame it published.
C38_EachFrameOnce ==
    /\ \A t \in Tasks : pub[t] # 0 => pub[t] = t
    /\ \A t \in Tasks : (pc[t] = "done" /\ fwd[t] # 0) => fwd[t] = pub[t]

HoldsAddresses(d) ==
    /\ Len(d) >= 8
    /\ WireHardwareType(d) = LinkTypeEthernet
    /\ WireProtocolType(d) \in {EtherTypeIPv4, EtherTypeARP, EtherTypeIPv6}
    /\ WireOpcode(d) \in {ARPOpcodeRequest, ARPOpcodeReply}
    /\ Len(d) >= 8 + 2 * (WireHLength(d) + WirePLength(d))

\* C40: for every HLength and PLength in 0..255 and an input that holds the
\* four addresses, SHAddress and THAddress are the HLength bytes and
\* SPAddress and TPAddress the PLength bytes at consecutive offsets from 8.
C40_AddressOffsets ==
    (DecodedARP(8) /\ HoldsAddresses(last.data)) =>
        /\ last.r.out = "ok"
        /\ last.r.arp.SHAddress
               = Slice(last.data, 8, 8 + WireHLength(last.data))
        /\ last.r.arp.SPAddress
               = Slice(last.data, 8 + WireHLength(last.data),
                       8 + WireHLength(last.data) + WirePLength(last.data))
        /\ last.r.arp.THAddress
               = Slice(last.data,
                       8 + WireHLength(last.data) + WirePLength(last.data),
                       8 + 2 * WireHLength(last.data) + WirePLength(last.data))
        /\ last.r.arp.TPAddress
               = Slice(last.data,
                       8 + 2 * WireHLength(last.data) + WirePLength(last.data),
                       8 + 2 * WireHLength(last.data) + 2 * WirePLength(last.data))
====
